---- MODULE Spec2Model ----
(***************************************************************************)
(* Retrieval-augmented chat pages of the snow-retail workshop apps.        *)
(*                                                                         *)
(* Three pages implement the RAG chat:                                     *)
(*   "step4"  handson/mvp/pages/_4_RAG...py    (selectbox filters, slider) *)
(*   "mvp"    handson2/sis_snowretail_chatbot_mvp.py  (multiselect filters)*)
(*   "short"  handson2/sis_snowretail_analysis_short.py (keyword step)     *)
(* and one page is the chat without retrieval:                             *)
(*   "simple" handson2/dev/pages/_3_...py      (persona, FAQ buttons)      *)
(*                                                                         *)
(* A text is a sequence of atoms.  An atom is one character where the code *)
(* looks at characters (backslash, quotes, newline, tab, the letters n and *)
(* t) and otherwise an opaque piece of text containing none of these.      *)
(* Japanese literals of the source are written as ASCII labels.            *)
(***************************************************************************)
EXTENDS Naturals, Sequences, FiniteSets, TLC

VARIABLES
    page,              \* which of the pages this session runs
    rag_messages,      \* the turn list (step4: st.session_state.rag_chat_history)
    rag_chat_history,  \* mvp/short: the running "User: ..\nAI: ..\n" text
    submitted,         \* questions appended as user turns since the last clear
    run,               \* what the last script run did (requests sent, outcomes)
    messages,          \* page "simple": st.session_state.messages
    sql,               \* the texts given to a query builder, and the query built
    chat_history,      \* page "mvp_simple": the running "User: ..\nAI: ..\n" text
    analyst_messages,  \* the Analyst pages: the turn list
    analysis,          \* table CUSTOMER_ANALYSIS: the rows inserted, in order
    jobs,              \* review preprocessing: what each browser session is doing
    runs_started,      \* review preprocessing: process_reviews calls so far
    raw_response,      \* post-processing: the model's raw response
    response,          \* post-processing: the value generate_rag_response returns
    original,          \* post-processing: the text the model was answering with
    stage              \* post-processing: "asked" -> "answered" -> "returned"

ragVars == <<page, rag_messages, rag_chat_history, submitted, run>>
postVars == <<raw_response, response, original, stage>>
reviewVars == <<analysis, jobs, runs_started>>
\* The variables no chat page touches.
idleVars == <<postVars, sql, reviewVars>>
vars == <<page, rag_messages, rag_chat_history, submitted, run, messages, sql,
          chat_history, analyst_messages, analysis, jobs, runs_started,
          raw_response, response, original, stage>>

\* ------------------------------------------------------------------ bounds

\* Questions asked between two clears of one session.
MaxQuestions == 2
\* Length of the texts fed to the response post-processing.
MaxLen == 3
\* The longest message list of the simple chatbot before a last question.
MaxHistory == 12
\* How many times the preprocessing buttons are pressed.
MaxRuns == 2

\* ------------------------------------------------------------------- texts

BS == "\\"
DQ == "\""
SQ == "'"
NL == "\n"
TAB == "\t"

\* str.startswith / str.endswith with a one-character argument.
StartsWith(s, c) == Len(s) >= 1 /\ s[1] = c
EndsWith(s, c) == Len(s) >= 1 /\ s[Len(s)] = c

\* s[1:-1]
Slice1(s) == SubSeq(s, 2, Len(s) - 1)

\* str.replace(old, new): leftmost, non-overlapping occurrences.
RECURSIVE Replace(_, _, _)
Replace(s, old, new) ==
    IF Len(s) < Len(old) THEN s
    ELSE IF SubSeq(s, 1, Len(old)) = old
         THEN new \o Replace(SubSeq(s, Len(old) + 1, Len(s)), old, new)
         ELSE <<s[1]>> \o Replace(Tail(s), old, new)

\* All texts over alphabet A of length at most n.
RECURSIVE TextsUpTo(_, _)
TextsUpTo(A, n) ==
    IF n = 0 THEN {<<>>}
    ELSE LET shorter == TextsUpTo(A, n - 1)
         IN  shorter \cup {Append(t, a) : t \in {u \in shorter : Len(u) = n - 1}, a \in A}

\* --------------------------------------------- response post-processing

NoAnswerMessage == <<"MSG_COULD_NOT_GENERATE">>

\* Mutation: the doubled backslash is undone first instead of last.
CleanResponseBackslashFirst(raw) ==
    LET r1 == IF StartsWith(raw, DQ) /\ EndsWith(raw, DQ) THEN Slice1(raw) ELSE raw
        r0 == Replace(r1, <<BS, BS>>, <<BS>>)
        r2 == Replace(r0, <<BS, "n">>, <<NL>>)
        r3 == Replace(r2, <<BS, "t">>, <<TAB>>)
        r4 == Replace(r3, <<BS, DQ>>, <<DQ>>)
    IN  Replace(r4, <<BS, SQ>>, <<SQ>>)

\* generate_rag_response, lines 185-196: the cleaning of a non-empty response.
CleanResponse(raw) ==
    LET r1 == IF StartsWith(raw, DQ) /\ EndsWith(raw, DQ) THEN Slice1(raw) ELSE raw
        r2 == Replace(r1, <<BS, "n">>, <<NL>>)
        r3 == Replace(r2, <<BS, "t">>, <<TAB>>)
        r4 == Replace(r3, <<BS, DQ>>, <<DQ>>)
        r5 == Replace(r4, <<BS, SQ>>, <<SQ>>)
    IN  Replace(r5, <<BS, BS>>, <<BS>>)

\* generate_rag_response, lines 181-198: an empty (falsy) response gives the
\* fixed apology, any other response is cleaned.
HandleResponse(raw) ==
    IF raw # <<>> THEN CleanResponse(raw) ELSE NoAnswerMessage

\* The alphabet of the post-processing check: the characters the code looks
\* at, and one ordinary letter.
PostAlphabet == {BS, DQ, SQ, NL, TAB, "n", "t", "a"}

\* How a model that escapes its answer writes a text: newline as backslash-n,
\* double quote as backslash-quote, backslash doubled.
RECURSIVE EscapeText(_)
EscapeText(t) ==
    IF t = <<>> THEN <<>>
    ELSE (CASE t[1] = NL -> <<BS, "n">>
            [] t[1] = DQ -> <<BS, DQ>>
            [] t[1] = BS -> <<BS, BS>>
            [] OTHER -> <<t[1]>>) \o EscapeText(Tail(t))

PostInit ==
    /\ original \in TextsUpTo(PostAlphabet, MaxLen)
    /\ raw_response = <<>>
    /\ response = <<>>
    /\ stage = "asked"
    /\ page = "none"
    /\ rag_messages = <<>>
    /\ rag_chat_history = <<>>
    /\ submitted = <<>>
    /\ run = [kind |-> "none"]
    /\ messages = <<>>
    /\ chat_history = <<>>
    /\ analyst_messages = <<>>
    /\ analysis = <<>>
    /\ jobs = <<>>
    /\ runs_started = 0
    /\ sql = [stage |-> "idle"]

\* The external model answers: with the text as it is, escaped, or escaped
\* and wrapped in double quotes.
ModelAnswers ==
    /\ stage = "asked"
    /\ \E form \in {"plain", "escaped", "quoted"} :
          raw_response' = CASE form = "plain" -> original
                            [] form = "escaped" -> EscapeText(original)
                            [] form = "quoted" -> <<DQ>> \o EscapeText(original) \o <<DQ>>
    /\ stage' = "answered"
    /\ UNCHANGED <<response, original>>

\* generate_rag_response from the fetched result on (lines 181-198).
ReturnResponse ==
    /\ stage = "answered"
    /\ response' = HandleResponse(raw_response)
    /\ stage' = "returned"
    /\ UNCHANGED <<raw_response, original>>

PostNext ==
    \/ ModelAnswers /\ UNCHANGED <<ragVars, messages, sql, chat_history, analyst_messages, reviewVars>>
    \/ ReturnResponse /\ UNCHANGED <<ragVars, messages, sql, chat_history, analyst_messages, reviewVars>>

SpecPost == PostInit /\ [][PostNext]_vars

\* ------------------------------------------------- the external services

ALL == "ALL"            \* the selectbox entry for "no filter"
Departments == {"CS", "Sales"}
DocTypes == {"FAQ", "Manual"}
LLM_MODELS == {"llama4-maverick"}
COMPLETE_MODELS == {"claude-3-5-sonnet"}
COLUMNS == <<"title", "content", "document_type", "department">>

doc1 == [title |-> "T1", content |-> "C1", document_type |-> "FAQ", department |-> "CS"]
doc2 == [title |-> "T2", content |-> "C2", document_type |-> "Manual", department |-> "Sales"]
\* A malformed record: the title column is missing.
docNoTitle == [content |-> "C3", document_type |-> "FAQ", department |-> "CS"]

\* What the search service may answer; it is not assumed to honour the
\* limit or the filter of the request.
SearchResponses == {<<>>, <<doc1>>, <<doc1, doc2>>, <<doc2, doc1>>, <<docNoTitle>>}

SearchOutcomes ==
    {[ok |-> FALSE, error |-> "E_SEARCH"]} \cup
    {[ok |-> TRUE, results |-> r] : r \in SearchResponses}

\* On page "step4" the retriever first asks the session for the current
\* database and schema; that query can fail before any search is sent.
Step4SearchOutcomes ==
    SearchOutcomes \cup {[ok |-> FALSE, error |-> "E_SESSION", session |-> FALSE]}

\* The text-generation call: an error, or a raw response.
GenOutcomes ==
    {[ok |-> FALSE, error |-> "E_GENERATE"],
     [ok |-> TRUE, text |-> <<DQ, "answer", BS, "n", DQ>>]}

\* The keyword call of the "short" page: an error, an empty text, keywords.
KeywordOutcomes ==
    {[ok |-> FALSE, error |-> "E_KEYWORDS"],
     [ok |-> TRUE, text |-> <<>>],
     [ok |-> TRUE, text |-> <<"keywords">>]}

\* The typed question contains a single quote; "" is an empty input box.
TypedQuestions == {<<>>, <<"it", SQ, "s">>}
TemplateQuestions == {<<"template question">>}
\* What is typed into the chat input of pages "mvp" and "short" (it never
\* delivers an empty text).
ChatQuestions == {<<"it", SQ, "s">>, <<"return policy">>}
\* The slider offers 1..5 with 3 as its default.
SearchLimits == {1, 3}

\* The filter settings tried while chatting (department, document type);
\* the search specification below tries every setting.
Step4SessionFilters == {<<ALL, ALL>>, <<"CS", ALL>>, <<"CS", "FAQ">>}
MvpSessionFilters ==
    {<< <<>>, <<>> >>, << <<"CS">>, <<>> >>, << <<"CS", "Sales">>, <<"FAQ">> >>}

\* dict.get(key, default)
Get(r, key, default) == IF key \in DOMAIN r THEN r[key] ELSE default

\* sep.join(parts), for texts
RECURSIVE Join(_, _)
Join(parts, sep) ==
    IF parts = <<>> THEN <<>>
    ELSE IF Len(parts) = 1 THEN parts[1]
    ELSE parts[1] \o sep \o Join(Tail(parts), sep)

\* The requests of one script run, in the order they were issued.
SearchCall(args, outcome) == [call |-> "search", args |-> args, ok |-> outcome.ok]
CompleteCall(model, prompt, outcome) ==
    [call |-> "complete", model |-> model, prompt |-> prompt, ok |-> outcome.ok]
KeywordCall(model, prompt, outcome) ==
    [call |-> "keywords", model |-> model, prompt |-> prompt, ok |-> outcome.ok,
     text |-> Get(outcome, "text", <<>>)]

\* result["title"] and the like raise KeyError on a record without the column.
HasColumns(record) == \A c \in {"title", "content", "document_type", "department"} :
                          c \in DOMAIN record

\* The search call did not deliver a well-formed response: it raised, or a
\* record of its response lacks a requested column.
SearchFailed(outcome) ==
    \/ ~outcome.ok
    \/ \E i \in 1..Len(outcome.results) : ~HasColumns(outcome.results[i])

\* ------------------------------------------------------ page "step4"

\* Mutation: one condition is wrapped in @and like several are.
Step4SearchArgsAlwaysAnd(query, limit, department_filter, doc_type_filter) ==
    LET search_args == [query |-> query, columns |-> COLUMNS, limit |-> limit]
        filter_conditions ==
            (IF department_filter # ALL
             THEN <<"@eq" :> ("department" :> department_filter)>> ELSE <<>>)
            \o (IF doc_type_filter # ALL
                THEN <<"@eq" :> ("document_type" :> doc_type_filter)>> ELSE <<>>)
    IN  IF filter_conditions # <<>>
        THEN search_args @@ ("filter" :> ("@and" :> filter_conditions))
        ELSE search_args

\* Mutation: a request without conditions carries an empty @and filter.
Step4SearchArgsEmptyFilter(query, limit, department_filter, doc_type_filter) ==
    LET search_args == [query |-> query, columns |-> COLUMNS, limit |-> limit]
        filter_conditions ==
            (IF department_filter # ALL
             THEN <<"@eq" :> ("department" :> department_filter)>> ELSE <<>>)
            \o (IF doc_type_filter # ALL
                THEN <<"@eq" :> ("document_type" :> doc_type_filter)>> ELSE <<>>)
    IN  IF Len(filter_conditions) = 1
        THEN search_args @@ ("filter" :> filter_conditions[1])
        ELSE search_args @@ ("filter" :> ("@and" :> filter_conditions))

\* Mutation: two conditions are combined with @or.
Step4SearchArgsOrAcross(query, limit, department_filter, doc_type_filter) ==
    LET search_args == [query |-> query, columns |-> COLUMNS, limit |-> limit]
        filter_conditions ==
            (IF department_filter # ALL
             THEN <<"@eq" :> ("department" :> department_filter)>> ELSE <<>>)
            \o (IF doc_type_filter # ALL
                THEN <<"@eq" :> ("document_type" :> doc_type_filter)>> ELSE <<>>)
    IN  IF filter_conditions # <<>>
        THEN IF Len(filter_conditions) = 1
             THEN search_args @@ ("filter" :> filter_conditions[1])
             ELSE search_args @@ ("filter" :> ("@or" :> filter_conditions))
        ELSE search_args

\* search_documents_with_cortex: the request it builds.
Step4SearchArgs(query, limit, department_filter, doc_type_filter) ==
    LET search_args == [query |-> query, columns |-> COLUMNS, limit |-> limit]
        filter_conditions ==
            (IF department_filter # ALL
             THEN <<"@eq" :> ("department" :> department_filter)>> ELSE <<>>)
            \o (IF doc_type_filter # ALL
                THEN <<"@eq" :> ("document_type" :> doc_type_filter)>> ELSE <<>>)
    IN  IF filter_conditions # <<>>
        THEN IF Len(filter_conditions) = 1
             THEN search_args @@ ("filter" :> filter_conditions[1])
             ELSE search_args @@ ("filter" :> ("@and" :> filter_conditions))
        ELSE search_args

\* search_documents_with_cortex: the response records as dictionaries, a
\* missing column replaced by its default.
Step4Results(records) ==
    [i \in 1..Len(records) |->
        [title |-> Get(records[i], "title", "NO_TITLE"),
         content |-> Get(records[i], "content", ""),
         document_type |-> Get(records[i], "document_type", "N/A"),
         department |-> Get(records[i], "department", "N/A")]]

\* search_documents_with_cortex as a whole.  The result names what the
\* function returns, the calls it issued and the errors it put on the page.
search_documents_with_cortex(query, limit, department_filter, doc_type_filter, outcome) ==
    LET args == Step4SearchArgs(query, limit, department_filter, doc_type_filter)
    IN  IF ~Get(outcome, "session", TRUE)
        THEN [returned |-> <<>>, calls |-> <<>>,
              shown |-> <<<<"SEARCH_ERROR: ", outcome.error>>>>]
        ELSE IF ~outcome.ok
        THEN [returned |-> <<>>, calls |-> <<SearchCall(args, outcome)>>,
              shown |-> <<<<"SEARCH_ERROR: ", outcome.error>>>>]
        ELSE [returned |-> Step4Results(outcome.results),
              calls |-> <<SearchCall(args, outcome)>>,
              shown |-> <<>>]

NoDocumentsMessage == <<"MSG_NO_RELATED_DOCUMENTS">>

\* Mutation: the entries are written last result first.
Step4ContextDocumentsLastFirst(search_results) ==
    [i \in 1..Len(search_results) |->
        <<"DOC_TITLE: ", Get(search_results[Len(search_results) + 1 - i], "title", "NO_TITLE"),
          NL, "DOC_CONTENT: ",
          Get(search_results[Len(search_results) + 1 - i], "content", "")>>]

\* Handler lines 431-438: one context entry per search result.
Step4ContextDocuments(search_results) ==
    [i \in 1..Len(search_results) |->
        <<"DOC_TITLE: ", Get(search_results[i], "title", "NO_TITLE"), NL,
          "DOC_CONTENT: ", Get(search_results[i], "content", "")>>]

\* Mutation: each title is put at the front of the list (insert(0, title)).
Step4SourceTitlesReversed(search_results) ==
    [i \in 1..Len(search_results) |->
        Get(search_results[Len(search_results) + 1 - i], "title", "NO_TITLE")]

\* Handler lines 432-438: one source title per search result.
Step4SourceTitles(search_results) ==
    [i \in 1..Len(search_results) |-> Get(search_results[i], "title", "NO_TITLE")]

\* Handler line 440.
Step4Context(context_documents) ==
    IF context_documents # <<>>
    THEN Join(context_documents, <<NL, NL>>)
    ELSE NoDocumentsMessage

\* generate_rag_response lines 149-177: the SQL text sent to COMPLETE.
Step4CompleteQuery(question, context, model) ==
    LET escaped_question == Replace(question, <<SQ>>, <<SQ, SQ>>)
        escaped_context == Replace(context, <<SQ>>, <<SQ, SQ>>)
        prompt == <<"PERSONA_SUPPORT_STAFF", "ANSWER_FROM_OFFICIAL_DOCUMENTS",
                    "DOCUMENTS_LABEL">>
                  \o escaped_context
                  \o <<"QUESTION_LABEL">> \o escaped_question
                  \o <<"GUIDE_DOCUMENTS_FIRST", "GUIDE_REFER_TO_DEPARTMENT",
                       "GUIDE_KIND_WORDS", "GUIDE_NUMBERED_STEPS">>
        escaped_prompt == Replace(prompt, <<SQ>>, <<SQ, SQ>>)
    IN  <<"SELECT SNOWFLAKE.CORTEX.COMPLETE(", SQ, model, SQ, ", ", SQ>>
        \o escaped_prompt \o <<SQ, ") as response">>

\* generate_rag_response: the value it returns.
generate_rag_response(question, context, model, outcome) ==
    IF outcome.ok
    THEN HandleResponse(outcome.text)
    ELSE <<"ERROR_OCCURRED: ", outcome.error>>

\* The answer handler shared by the submit button (lines 420-453) and the
\* template buttons (lines 503-531).
Step4Answer(question, search_limit, filter_department, filter_doc_type, model, sOut, gOut) ==
    LET search == search_documents_with_cortex(question, search_limit,
                      filter_department, filter_doc_type, sOut)
        search_results == search.returned
        context_documents == Step4ContextDocuments(search_results)
        source_titles == Step4SourceTitles(search_results)
        context == Step4Context(context_documents)
        rag_response == generate_rag_response(question, context, model, gOut)
    IN  /\ rag_messages' = rag_messages \o
              <<[role |-> "user", content |-> question],
                [role |-> "assistant", content |-> rag_response,
                 sources |-> source_titles]>>
        /\ submitted' = Append(submitted, question)
        /\ run' = [kind |-> "answer",
                   question |-> question,
                   limit |-> search_limit,
                   selected |-> [department |-> IF filter_department = ALL THEN <<>>
                                                ELSE <<filter_department>>,
                                 document_type |-> IF filter_doc_type = ALL THEN <<>>
                                                   ELSE <<filter_doc_type>>],
                   calls |-> Append(search.calls,
                                CompleteCall(model,
                                    Step4CompleteQuery(question, context, model), gOut)),
                   search_failed |-> SearchFailed(sOut),
                   retrieved |-> [raised |-> FALSE, value |-> search_results],
                   errors |-> (IF ~sOut.ok THEN <<sOut.error>> ELSE <<>>)
                              \o (IF gOut.ok THEN <<>> ELSE <<gOut.error>>)]
        /\ UNCHANGED <<page, rag_chat_history>>

\* The "RAG answer" button (lines 418-453).
Step4Submit(filter_choices, max_questions) ==
    /\ page = "step4"
    /\ Len(submitted) < max_questions
    /\ \E user_question \in TypedQuestions, search_limit \in SearchLimits,
          filters \in filter_choices, model \in LLM_MODELS,
          sOut \in Step4SearchOutcomes, gOut \in GenOutcomes :
          IF user_question # <<>>
          THEN Step4Answer(user_question, search_limit, filters[1], filters[2],
                           model, sOut, gOut)
          ELSE /\ run' = [kind |-> "noop"]
               /\ UNCHANGED <<page, rag_messages, rag_chat_history, submitted>>

\* A template question button (lines 499-531).
Step4Template(filter_choices, max_questions) ==
    /\ page = "step4"
    /\ Len(submitted) < max_questions
    /\ \E question \in TemplateQuestions, search_limit \in SearchLimits,
          filters \in filter_choices, model \in LLM_MODELS,
          sOut \in Step4SearchOutcomes, gOut \in GenOutcomes :
          Step4Answer(question, search_limit, filters[1], filters[2],
                      model, sOut, gOut)

\* The search demo button (lines 344-374): the retriever is called and its
\* results are shown; the conversation is not touched.
Step4SearchDemo ==
    /\ page = "step4"
    /\ \E search_query \in {<<>>, <<"return policy">>}, search_limit \in SearchLimits,
          filter_department \in {ALL} \cup Departments,
          filter_doc_type \in {ALL} \cup DocTypes,
          sOut \in Step4SearchOutcomes :
          IF search_query # <<>>
          THEN LET search == search_documents_with_cortex(search_query, search_limit,
                                 filter_department, filter_doc_type, sOut)
               IN  run' = [kind |-> "search",
                           question |-> search_query,
                           limit |-> search_limit,
                           selected |-> [department |-> IF filter_department = ALL
                                                        THEN <<>> ELSE <<filter_department>>,
                                         document_type |-> IF filter_doc_type = ALL
                                                           THEN <<>> ELSE <<filter_doc_type>>],
                           calls |-> search.calls,
                           search_failed |-> SearchFailed(sOut),
                           retrieved |-> [raised |-> FALSE, value |-> search.returned],
                           errors |-> IF ~sOut.ok THEN <<sOut.error>> ELSE <<>>]
          ELSE run' = [kind |-> "noop"]
    /\ UNCHANGED <<page, rag_messages, rag_chat_history, submitted>>

\* The clear button (lines 456-458).
Step4Clear ==
    /\ page = "step4"
    /\ rag_messages' = <<>>
    /\ submitted' = <<>>
    /\ run' = [kind |-> "clear", discarded |-> Len(rag_messages)]
    /\ UNCHANGED <<page, rag_chat_history>>

\* ------------------------------------------------ pages "mvp" and "short"

\* What a multiselect returns: the chosen options, each once, in order.
Selections(S) ==
    {<<>>} \cup {<<a>> : a \in S} \cup {<<p[1], p[2]>> : p \in {q \in S \X S : q[1] # q[2]}}

\* Mutation: the document type expression is put before the department one.
MvpSearchArgsTypeFirst(prompt, selected_departments, selected_document_types) ==
    LET dept_conditions ==
            [i \in 1..Len(selected_departments) |->
                "@eq" :> ("department" :> selected_departments[i])]
        type_conditions ==
            [i \in 1..Len(selected_document_types) |->
                "@eq" :> ("document_type" :> selected_document_types[i])]
        filter_conditions ==
            (IF selected_document_types # <<>>
             THEN IF Len(type_conditions) = 1
                  THEN <<type_conditions[1]>>
                  ELSE <<"@or" :> type_conditions>>
             ELSE <<>>)
            \o (IF selected_departments # <<>>
                THEN IF Len(dept_conditions) = 1
                     THEN <<dept_conditions[1]>>
                     ELSE <<"@or" :> dept_conditions>>
                ELSE <<>>)
        search_args == [query |-> prompt, columns |-> COLUMNS, limit |-> 3]
    IN  IF filter_conditions # <<>>
        THEN IF Len(filter_conditions) = 1
             THEN search_args @@ ("filter" :> filter_conditions[1])
             ELSE search_args @@ ("filter" :> ("@and" :> filter_conditions))
        ELSE search_args

\* render_rag_chatbot_page (mvp) lines 702-753: the search request.
MvpSearchArgs(prompt, selected_departments, selected_document_types) ==
    LET dept_conditions ==
            [i \in 1..Len(selected_departments) |->
                "@eq" :> ("department" :> selected_departments[i])]
        type_conditions ==
            [i \in 1..Len(selected_document_types) |->
                "@eq" :> ("document_type" :> selected_document_types[i])]
        filter_conditions ==
            (IF selected_departments # <<>>
             THEN IF Len(dept_conditions) = 1
                  THEN <<dept_conditions[1]>>
                  ELSE <<"@or" :> dept_conditions>>
             ELSE <<>>)
            \o (IF selected_document_types # <<>>
                THEN IF Len(type_conditions) = 1
                     THEN <<type_conditions[1]>>
                     ELSE <<"@or" :> type_conditions>>
                ELSE <<>>)
        search_args == [query |-> prompt, columns |-> COLUMNS, limit |-> 3]
    IN  IF filter_conditions # <<>>
        THEN IF Len(filter_conditions) = 1
             THEN search_args @@ ("filter" :> filter_conditions[1])
             ELSE search_args @@ ("filter" :> ("@and" :> filter_conditions))
        ELSE search_args

\* render_rag_chatbot_page (short) lines 423-427: the search request.
ShortSearchArgs(keywords) == [query |-> keywords, columns |-> COLUMNS, limit |-> 3]

\* Lines 758-766 (mvp), 430-438 (short).
RelevantDocs(records) ==
    [i \in 1..Len(records) |->
        [title |-> records[i].title, content |-> records[i].content,
         document_type |-> records[i].document_type,
         department |-> records[i].department]]

\* Lines 769-777 (mvp), 441-449 (short): the context text.
RECURSIVE ChatContextEntries(_)
ChatContextEntries(relevant_docs) ==
    IF relevant_docs = <<>> THEN <<>>
    ELSE <<"TITLE: ", relevant_docs[1].title,
           "TYPE: ", relevant_docs[1].document_type,
           "DEPARTMENT: ", relevant_docs[1].department,
           "CONTENT: ", relevant_docs[1].content, "---">>
         \o ChatContextEntries(Tail(relevant_docs))

ChatContext(relevant_docs) == <<"REFERENCE_DOCUMENTS:", NL>> \o ChatContextEntries(relevant_docs)

\* Lines 780-789 (mvp), 452-461 (short): the generation prompt.
ChatPromptTemplate(context, prompt) ==
    <<"PERSONA_INTERNAL_ASSISTANT", "ANSWER_IN_JAPANESE_FROM_CONTEXT",
      "SAY_SO_IF_UNKNOWN", "CONTEXT_LABEL">>
    \o context \o <<"QUESTION_LABEL">> \o prompt

\* Lines 407-412 (short): the keyword prompt.
ShortTranslatePrompt(prompt) ==
    <<"CONVERT_TO_ENGLISH_SEARCH_KEYWORDS", "OUTPUT_KEYWORDS_ONLY", "QUESTION_LABEL">>
    \o prompt

\* Mutation: a search that raised is sent a second time.
ChatTrySearchTwice(prompt, search_args, model, sOut, gOut) ==
    LET search == SearchCall(search_args, sOut)
    IN  IF ~sOut.ok
        THEN [raised |-> TRUE, error |-> sOut.error, calls |-> <<search, search>>,
              retrieved |-> [raised |-> TRUE, error |-> sOut.error]]
        ELSE IF \E i \in 1..Len(sOut.results) : ~HasColumns(sOut.results[i])
        THEN [raised |-> TRUE, error |-> "E_KEY", calls |-> <<search>>,
              retrieved |-> [raised |-> TRUE, error |-> "E_KEY"]]
        ELSE LET relevant_docs == RelevantDocs(sOut.results)
                 context == ChatContext(relevant_docs)
                 prompt_template == ChatPromptTemplate(context, prompt)
                 complete == CompleteCall(model, prompt_template, gOut)
             IN  IF ~gOut.ok
                 THEN [raised |-> TRUE, error |-> gOut.error,
                       calls |-> <<search, complete>>,
                       retrieved |-> [raised |-> FALSE, value |-> relevant_docs]]
                 ELSE [raised |-> FALSE, response |-> gOut.text,
                       relevant_docs |-> relevant_docs,
                       calls |-> <<search, complete>>,
                       retrieved |-> [raised |-> FALSE, value |-> relevant_docs]]

\* The body of the try block from the search call on: what it leaves behind.
\* raised: an exception ended the block before the assistant turn was added.
ChatTry(prompt, search_args, model, sOut, gOut) ==
    LET search == SearchCall(search_args, sOut)
    IN  IF ~sOut.ok
        THEN [raised |-> TRUE, error |-> sOut.error, calls |-> <<search>>,
              retrieved |-> [raised |-> TRUE, error |-> sOut.error]]
        ELSE IF \E i \in 1..Len(sOut.results) : ~HasColumns(sOut.results[i])
        THEN [raised |-> TRUE, error |-> "E_KEY", calls |-> <<search>>,
              retrieved |-> [raised |-> TRUE, error |-> "E_KEY"]]
        ELSE LET relevant_docs == RelevantDocs(sOut.results)
                 context == ChatContext(relevant_docs)
                 prompt_template == ChatPromptTemplate(context, prompt)
                 complete == CompleteCall(model, prompt_template, gOut)
             IN  IF ~gOut.ok
                 THEN [raised |-> TRUE, error |-> gOut.error,
                       calls |-> <<search, complete>>,
                       retrieved |-> [raised |-> FALSE, value |-> relevant_docs]]
                 ELSE [raised |-> FALSE, response |-> gOut.text,
                       relevant_docs |-> relevant_docs,
                       calls |-> <<search, complete>>,
                       retrieved |-> [raised |-> FALSE, value |-> relevant_docs]]

\* Mutation: a question left without an answer is taken out of the turn list
\* when the next question arrives.
ChatRecordDropsUnanswered(prompt, selected_departments, selected_document_types, try, search_failed) ==
    /\ rag_messages' =
          Append(IF rag_messages # <<>> /\ rag_messages[Len(rag_messages)].role = "user"
                 THEN SubSeq(rag_messages, 1, Len(rag_messages) - 1)
                 ELSE rag_messages,
                 [role |-> "user", content |-> prompt])
          \o (IF try.raised THEN <<>>
              ELSE <<[role |-> "assistant", content |-> try.response,
                      relevant_docs |-> try.relevant_docs]>>)
    /\ rag_chat_history' =
          rag_chat_history \o <<"User: ">> \o prompt \o <<NL>>
          \o (IF try.raised THEN <<>>
              ELSE <<"AI: ">> \o try.response \o <<NL>>)
    /\ submitted' = Append(submitted, prompt)
    /\ run' = [kind |-> "answer",
               question |-> prompt,
               limit |-> 3,
               selected |-> [department |-> selected_departments,
                             document_type |-> selected_document_types],
               calls |-> try.calls,
               search_failed |-> search_failed,
               retrieved |-> try.retrieved,
               errors |-> IF try.raised THEN <<try.error>> ELSE <<>>]
    /\ UNCHANGED page

\* The effect of one chat_input submission on the session, given what the
\* try block left behind (lines 689-690 and 806-815 of mvp).
ChatRecord(prompt, selected_departments, selected_document_types, try, search_failed) ==
    /\ rag_messages' =
          Append(rag_messages, [role |-> "user", content |-> prompt])
          \o (IF try.raised THEN <<>>
              ELSE <<[role |-> "assistant", content |-> try.response,
                      relevant_docs |-> try.relevant_docs]>>)
    /\ rag_chat_history' =
          rag_chat_history \o <<"User: ">> \o prompt \o <<NL>>
          \o (IF try.raised THEN <<>>
              ELSE <<"AI: ">> \o try.response \o <<NL>>)
    /\ submitted' = Append(submitted, prompt)
    /\ run' = [kind |-> "answer",
               question |-> prompt,
               limit |-> 3,
               selected |-> [department |-> selected_departments,
                             document_type |-> selected_document_types],
               calls |-> try.calls,
               search_failed |-> search_failed,
               retrieved |-> try.retrieved,
               errors |-> IF try.raised THEN <<try.error>> ELSE <<>>]
    /\ UNCHANGED page

\* render_rag_chatbot_page (mvp), lines 687-815.
MvpSubmit(filter_choices, max_questions) ==
    /\ page = "mvp"
    /\ Len(submitted) < max_questions
    /\ \E prompt \in ChatQuestions,
          filters \in filter_choices,
          complete_model \in COMPLETE_MODELS,
          sOut \in SearchOutcomes, gOut \in GenOutcomes :
          ChatRecord(prompt, filters[1], filters[2],
                     ChatTry(prompt,
                             MvpSearchArgs(prompt, filters[1], filters[2]),
                             complete_model, sOut, gOut),
                     SearchFailed(sOut))

\* render_rag_chatbot_page (short), lines 398-487.
ShortSubmit ==
    /\ page = "short"
    /\ Len(submitted) < MaxQuestions
    /\ \E prompt \in ChatQuestions,
          complete_model \in COMPLETE_MODELS,
          kOut \in KeywordOutcomes,
          sOut \in SearchOutcomes, gOut \in GenOutcomes :
          LET keyword_call == KeywordCall(complete_model,
                                           ShortTranslatePrompt(prompt), kOut)
              rest == ChatTry(prompt, ShortSearchArgs(kOut.text),
                              complete_model, sOut, gOut)
              try == IF ~kOut.ok
                     THEN [raised |-> TRUE, error |-> kOut.error,
                           calls |-> <<keyword_call>>,
                           retrieved |-> [attempted |-> FALSE]]
                     ELSE [rest EXCEPT !.calls = <<keyword_call>> \o rest.calls]
          IN  ChatRecord(prompt, <<>>, <<>>, try,
                         kOut.ok /\ SearchFailed(sOut))

\* Mutation: the history text is emptied, the turn list is kept.
ChatClearTextOnly ==
    /\ page \in {"mvp", "short"}
    /\ rag_messages' = rag_messages
    /\ rag_chat_history' = <<>>
    /\ submitted' = submitted
    /\ run' = [kind |-> "clear", discarded |-> 0]
    /\ UNCHANGED page

\* The clear button (mvp lines 667-670, short lines 378-381).
ChatClear ==
    /\ page \in {"mvp", "short"}
    /\ rag_messages' = <<>>
    /\ rag_chat_history' = <<>>
    /\ submitted' = <<>>
    /\ run' = [kind |-> "clear", discarded |-> Len(rag_messages)]
    /\ UNCHANGED page

\* ------------------------------------------------------ page "simple"

\* persona_options: the system prompt of each persona.
PersonaPrompts == {"PERSONA_KIND_ASSISTANT", "PERSONA_TECH_SUPPORT"}
FaqQuestions == {<<"faq question">>}

\* What the query of get_ai_response may give: an error, no row, a response.
SimpleOutcomes ==
    {[ok |-> FALSE, error |-> "E_GENERATE"],
     [ok |-> TRUE, rows |-> 0],
     [ok |-> TRUE, rows |-> 1, text |-> <<"answer">>]}

\* get_ai_response lines 46-54: the SQL text.  The function name is left to
\* be filled in by the attendee of the workshop.
GetAiResponseQuery(model, prompt) ==
    LET escaped_prompt == Replace(prompt, <<SQ>>, <<SQ, SQ>>)
    IN  <<"SELECT FUNCTION_TO_FILL_IN(", SQ, model, SQ, ", ", SQ>>
        \o escaped_prompt \o <<SQ, ") as response">>

\* get_ai_response: the value it returns.
get_ai_response(model, prompt, outcome) ==
    IF ~outcome.ok THEN <<"ERROR_OCCURRED: ", outcome.error>>
    ELSE IF outcome.rows > 0 THEN outcome.text
    ELSE <<"MSG_NO_RESPONSE">>

\* Mutation: msgs[:10], the first ten messages.
FirstTen(msgs) ==
    SubSeq(msgs, 1, IF Len(msgs) > 10 THEN 10 ELSE Len(msgs))

\* msgs[-10:]
LastTen(msgs) ==
    SubSeq(msgs, IF Len(msgs) > 10 THEN Len(msgs) - 9 ELSE 1, Len(msgs))

\* section_1_basic_chat lines 158-163.
RECURSIVE ConversationHistory(_)
ConversationHistory(msgs) ==
    IF msgs = <<>> THEN <<>>
    ELSE (IF msgs[1].role = "user" THEN <<"USER: ">> ELSE <<"ASSISTANT: ">>)
         \o msgs[1].content \o <<NL>> \o ConversationHistory(Tail(msgs))

\* section_1_basic_chat lines 165-170.
SimpleChatPrompt(system_prompt, msgs) ==
    <<system_prompt, "HISTORY_LABEL">> \o ConversationHistory(LastTen(msgs))
    \o <<"ANSWER_LATEST_QUESTION_BRIEFLY">>

\* section_2_faq lines 241-245.
SimpleFaqPrompt(system_prompt, question) ==
    <<system_prompt, "USER_QUESTION_LABEL">> \o question \o <<"ANSWER_PRACTICALLY">>

\* The send button (lines 149-179).
SimpleSend(max_messages, personas) ==
    /\ page = "simple"
    /\ Len(messages) < max_messages
    /\ \E user_input \in TypedQuestions, system_prompt \in personas,
          model \in LLM_MODELS, outcome \in SimpleOutcomes :
          IF user_input # <<>>
          THEN LET asked == Append(messages, [role |-> "user", content |-> user_input])
                   full_prompt == SimpleChatPrompt(system_prompt, asked)
                   ai_response == get_ai_response(model, full_prompt, outcome)
               IN  /\ messages' = Append(asked, [role |-> "assistant",
                                                  content |-> ai_response])
                   /\ run' = [kind |-> "chat",
                              question |-> user_input,
                              full_prompt |-> full_prompt,
                              calls |-> <<CompleteCall(model,
                                            GetAiResponseQuery(model, full_prompt),
                                            outcome)>>,
                              errors |-> IF outcome.ok THEN <<>> ELSE <<outcome.error>>]
          ELSE /\ run' = [kind |-> "noop"]
               /\ UNCHANGED messages
    /\ UNCHANGED <<page, rag_messages, rag_chat_history, submitted>>

\* A question button of the FAQ section (lines 232-254).
SimpleFaq(max_messages, personas) ==
    /\ page = "simple"
    /\ Len(messages) < max_messages
    /\ \E question \in FaqQuestions, system_prompt \in personas,
          model \in LLM_MODELS, outcome \in SimpleOutcomes :
          LET full_prompt == SimpleFaqPrompt(system_prompt, question)
              ai_response == get_ai_response(model, full_prompt, outcome)
          IN  /\ messages' = messages \o
                    <<[role |-> "user", content |-> question],
                      [role |-> "assistant", content |-> ai_response]>>
              /\ run' = [kind |-> "chat",
                         question |-> question,
                         full_prompt |-> full_prompt,
                         calls |-> <<CompleteCall(model,
                                       GetAiResponseQuery(model, full_prompt),
                                       outcome)>>,
                         errors |-> IF outcome.ok THEN <<>> ELSE <<outcome.error>>]
    /\ UNCHANGED <<page, rag_messages, rag_chat_history, submitted>>

\* The clear button (lines 182-184).
SimpleClear ==
    /\ page = "simple"
    /\ messages' = <<>>
    /\ run' = [kind |-> "clear", discarded |-> Len(messages)]
    /\ UNCHANGED <<page, rag_messages, rag_chat_history, submitted>>

\* -------------------------------------------------- page "mvp_simple"

\* Mutation: the history text gets its "AI: " line also when the call failed.
MvpSimpleSubmitAlwaysAiLine ==
    /\ page = "mvp_simple"
    /\ Len(messages) < 2 * MaxQuestions
    /\ \E prompt \in ChatQuestions, complete_model \in COMPLETE_MODELS,
          gOut \in GenOutcomes :
          LET asked == chat_history \o <<"User: ">> \o prompt \o <<NL>>
              full_prompt == asked \o <<"AI: ">>
          IN  /\ messages' =
                    Append(messages, [role |-> "user", content |-> prompt])
                    \o (IF gOut.ok
                        THEN <<[role |-> "assistant", content |-> gOut.text]>>
                        ELSE <<>>)
              /\ chat_history' =
                    asked \o <<"AI: ">> \o (IF gOut.ok THEN gOut.text ELSE <<>>) \o <<NL>>
              /\ run' = [kind |-> "chat",
                         question |-> prompt,
                         full_prompt |-> full_prompt,
                         calls |-> <<CompleteCall(complete_model, full_prompt, gOut)>>,
                         errors |-> IF gOut.ok THEN <<>> ELSE <<gOut.error>>]
    /\ UNCHANGED <<page, rag_messages, rag_chat_history, submitted>>

\* render_simple_chatbot_page (mvp), lines 554-573: one chat_input submission.
MvpSimpleSubmit ==
    /\ page = "mvp_simple"
    /\ Len(messages) < 2 * MaxQuestions
    /\ \E prompt \in ChatQuestions, complete_model \in COMPLETE_MODELS,
          gOut \in GenOutcomes :
          LET asked == chat_history \o <<"User: ">> \o prompt \o <<NL>>
              full_prompt == asked \o <<"AI: ">>
          IN  /\ messages' =
                    Append(messages, [role |-> "user", content |-> prompt])
                    \o (IF gOut.ok
                        THEN <<[role |-> "assistant", content |-> gOut.text]>>
                        ELSE <<>>)
              /\ chat_history' =
                    asked \o (IF gOut.ok
                              THEN <<"AI: ">> \o gOut.text \o <<NL>>
                              ELSE <<>>)
              /\ run' = [kind |-> "chat",
                         question |-> prompt,
                         full_prompt |-> full_prompt,
                         calls |-> <<CompleteCall(complete_model, full_prompt, gOut)>>,
                         errors |-> IF gOut.ok THEN <<>> ELSE <<gOut.error>>]
    /\ UNCHANGED <<page, rag_messages, rag_chat_history, submitted>>

\* The clear button (lines 543-546).
MvpSimpleClear ==
    /\ page = "mvp_simple"
    /\ messages' = <<>>
    /\ chat_history' = <<>>
    /\ run' = [kind |-> "clear", discarded |-> Len(messages)]
    /\ UNCHANGED <<page, rag_messages, rag_chat_history, submitted>>

\* ------------------------------------------------ the Analyst pages

AnalystTyped == {<<>>, <<"sales by month">>}
AnalystQuestions == {<<"sales by month">>}
AnalystTemplates == {<<"template analysis">>}
ModelTypes == {"semantic_view", "semantic_model_file"}

\* str.strip(): the text without its leading and trailing whitespace.
Whitespace == {" ", NL, TAB}
RECURSIVE StripLeft(_)
StripLeft(t) ==
    IF t # <<>> /\ t[1] \in Whitespace THEN StripLeft(Tail(t)) ELSE t
RECURSIVE StripRight(_)
StripRight(t) ==
    IF t # <<>> /\ t[Len(t)] \in Whitespace
    THEN StripRight(SubSeq(t, 1, Len(t) - 1)) ELSE t
Strip(t) == StripRight(StripLeft(t))

\* `sql_query and sql_query.strip()`
HasStatement(sql_query) == sql_query # <<>> /\ Strip(sql_query) # <<>>

\* What the services may give during one Analyst turn: whether the stage
\* holds the semantic model file, what the Analyst API does, the text and
\* the statement of its response, whether the translation call succeeds,
\* what executing the statement gives, and whether the drawing calls
\* (charts, the display of the answer) succeed.  The database rejects a
\* statement that is empty or blank.
AnalystOutcomes ==
    {o \in [stage : {"found", "missing"},
            api : {"unavailable", "status_error", "malformed", "ok"},
            text : {<<>>, <<"interpretation">>},
            statement : {<<>>, <<" ">>, <<"SELECT">>},
            translate_ok : BOOLEAN,
            exec : {"rows", "empty", "fail"},
            draws : BOOLEAN] :
        /\ o.stage = "missing" => o.api = "ok" /\ o.draws
        /\ o.api # "ok" \/ o.stage = "missing" =>
              /\ o.text = <<>>
              /\ o.statement = <<>>
        /\ o.api \in {"status_error", "malformed"} => o.draws
        /\ o.text = <<>> => o.translate_ok
        /\ ~HasStatement(o.statement) => o.exec = "fail"}

\* The outcomes on a page that does not look at the stage during a turn.
StageFoundOutcomes == {o \in AnalystOutcomes : o.stage = "found"}

\* What SNOWFLAKE.CORTEX.TRANSLATE gives for a text.
Translate(text) == <<"JA">> \o text

\* The text collected from the response: each text item and two line ends.
CollectedText(o) == IF o.text = <<>> THEN <<>> ELSE o.text \o <<NL, NL>>

\* Mutation: a failed translation leaves no text.
AfterTranslateDropsText(response_text, o) ==
    IF response_text # <<>> /\ o.translate_ok
    THEN Translate(Strip(response_text))
    ELSE <<>>

\* The response text after the translation block: the translation when the
\* call is made and succeeds, the collected text otherwise.
AfterTranslate(response_text, o) ==
    IF response_text # <<>> /\ o.translate_ok
    THEN Translate(Strip(response_text))
    ELSE response_text

\* The translation call, made when there is a text.
TranslateCalls(response_text, o) ==
    IF response_text # <<>>
    THEN <<[call |-> "translate", text |-> Strip(response_text),
            ok |-> o.translate_ok]>>
    ELSE <<>>

\* The execution of a statement.
SqlCalls(executes, o) ==
    IF executes
    THEN <<[call |-> "sql", statement |-> o.statement, ok |-> o.exec # "fail"]>>
    ELSE <<>>

AnalystCall(question, model, o) ==
    [call |-> "analyst", question |-> question, model |-> model,
     ok |-> o.api = "ok"]

\* execute_cortex_analyst_query (dev): the dictionary it returns, and the
\* calls it makes.
execute_cortex_analyst_query(question, model_info, o) ==
    LET collected == CollectedText(o)
        response_text == AfterTranslate(collected, o)
        executes == HasStatement(o.statement)
        failure(message) ==
            [success |-> FALSE, sql |-> <<>>, data |-> "None",
             response_text |-> <<>>, message |-> message]
    IN  IF o.api = "unavailable"
        THEN [result |-> failure(<<"E_NO_INTERNAL_API">>), calls |-> <<>>]
        ELSE IF o.api = "status_error"
        THEN [result |-> failure(<<"E_ANALYST: ", "E_API_STATUS">>),
              calls |-> <<AnalystCall(question, model_info, o)>>]
        ELSE IF o.api = "malformed"
        THEN [result |-> failure(<<"E_ANALYST: ", "E_RESPONSE_FORMAT">>),
              calls |-> <<AnalystCall(question, model_info, o)>>]
        ELSE [result |->
                IF executes /\ o.exec = "fail"
                THEN [success |-> FALSE, sql |-> o.statement, data |-> "None",
                      response_text |-> response_text,
                      message |-> <<"E_SQL">>]
                ELSE [success |-> TRUE, sql |-> o.statement,
                      data |-> IF executes /\ o.exec = "rows"
                               THEN "ROWS" ELSE "EMPTY_FRAME",
                      response_text |-> Strip(response_text),
                      message |-> <<"MSG_ANALYSIS_DONE">>],
              calls |-> <<AnalystCall(question, model_info, o)>>
                        \o TranslateCalls(collected, o)
                        \o SqlCalls(executes, o)]

\* The turns a question adds on the dev page (lines 593-623 and 675-700),
\* with the wording of the failure message of the button pressed.
AnalystDevAnswer(question, model_info, enable_auto_chart, sorry, o) ==
    LET executed == execute_cortex_analyst_query(question, model_info, o)
        result == executed.result
        chart == IF enable_auto_chart /\ result.data = "ROWS" /\ o.draws
                 THEN "CHART" ELSE "None"
    IN  /\ analyst_messages' = analyst_messages \o
              <<[role |-> "user", content |-> question],
                IF result.success
                THEN [role |-> "analyst", content |-> result.response_text,
                      result |-> result, chart |-> chart]
                ELSE [role |-> "analyst",
                      content |-> <<sorry>> \o result.message,
                      result |-> result]>>
        /\ run' = [kind |-> "analyst",
                   question |-> question,
                   outcome |-> o,
                   calls |-> executed.calls,
                   errors |-> <<>>]

\* The number of questions in the Analyst history.
AnalystAsked == Len(SelectSeq(analyst_messages, LAMBDA m : m.role = "user"))

\* Mutation: the analysis button without its check of the input.
AnalystDevSubmitUnchecked(max_questions) ==
    /\ page = "analyst_dev"
    /\ AnalystAsked < max_questions
    /\ \E user_question \in AnalystTyped, model_info \in ModelTypes,
          enable_auto_chart \in BOOLEAN, o \in StageFoundOutcomes :
          AnalystDevAnswer(user_question, model_info, enable_auto_chart,
                           "SORRY_ANALYSIS_ERROR: ", o)
    /\ UNCHANGED page

\* The analysis button (dev, lines 590-625).
AnalystDevSubmit(max_questions) ==
    /\ page = "analyst_dev"
    /\ AnalystAsked < max_questions
    /\ \E user_question \in AnalystTyped, model_info \in ModelTypes,
          enable_auto_chart \in BOOLEAN, o \in StageFoundOutcomes :
          IF user_question # <<>>
          THEN AnalystDevAnswer(user_question, model_info, enable_auto_chart,
                                "SORRY_ANALYSIS_ERROR: ", o)
          ELSE /\ run' = [kind |-> "noop"]
               /\ UNCHANGED analyst_messages
    /\ UNCHANGED page

\* A template question button (dev, lines 672-700).
AnalystDevTemplate(max_questions) ==
    /\ page = "analyst_dev"
    /\ AnalystAsked < max_questions
    /\ \E question \in AnalystTemplates, model_info \in ModelTypes,
          enable_auto_chart \in BOOLEAN, o \in StageFoundOutcomes :
          AnalystDevAnswer(question, model_info, enable_auto_chart,
                           "ANALYSIS_ERROR: ", o)
    /\ UNCHANGED page

\* The clear button (dev, lines 628-630).
AnalystDevClear ==
    /\ page = "analyst_dev"
    /\ analyst_messages' = <<>>
    /\ run' = [kind |-> "clear", discarded |-> Len(analyst_messages)]
    /\ UNCHANGED page

\* The turn the outer handler of the chat pages appends for an exception.
AnalystErrorTurn(e) ==
    [role |-> "assistant", content |-> <<"ERROR_OCCURRED: ", e>>,
     result |-> "None"]

\* The stand-in answer of the chat pages when the internal API is missing.
AnalystMockTurn(prompt) ==
    [role |-> "assistant",
     content |-> <<"QUESTION: ">> \o prompt \o <<NL, NL, "MSG_ANALYST_UNAVAILABLE">>,
     result |-> "MOCK_ROWS", sql |-> <<"MOCK_SQL">>, chart |-> "MOCK_CHART"]

\* One submitted question on a chat page (mvp lines 317-515, short lines
\* 123-334): the assistant turns appended, the calls made and the messages
\* shown.  `checks_stage` and `checks_statement` tell the two pages apart.
AnalystChatTry(prompt, checks_stage, checks_statement, o) ==
    LET collected == CollectedText(o)
        response_text == AfterTranslate(collected, o)
        executes == IF checks_statement THEN HasStatement(o.statement) ELSE TRUE
        result_data == IF executes /\ o.exec = "rows" THEN "ROWS"
                       ELSE IF executes /\ o.exec = "empty" THEN "EMPTY_FRAME"
                       ELSE "None"
        answer == [role |-> "assistant", content |-> Strip(response_text),
                   result |-> result_data, sql |-> o.statement,
                   chart |-> IF result_data = "ROWS" THEN "CHART" ELSE "None"]
        stage_calls == IF checks_stage THEN <<[call |-> "list_stage"]>> ELSE <<>>
        file_model == "semantic_model_file"
    IN  IF checks_stage /\ o.stage = "missing"
        THEN [turns |-> <<AnalystErrorTurn("E_MODEL_FILE_NOT_FOUND")>>,
              calls |-> stage_calls,
              errors |-> <<"E_STAGE_CHECK", "E_ANALYST_ACCESS">>]
        ELSE IF o.api = "unavailable"
        THEN [turns |-> <<AnalystMockTurn(prompt)>>
                        \o (IF o.draws THEN <<>>
                            ELSE <<AnalystErrorTurn("E_DRAW")>>),
              calls |-> stage_calls,
              errors |-> <<"E_NO_INTERNAL_API">>
                         \o (IF o.draws THEN <<>> ELSE <<"E_ANALYST_ACCESS">>)]
        ELSE IF o.api = "status_error"
        THEN [turns |-> <<AnalystErrorTurn("E_API_STATUS")>>,
              calls |-> stage_calls \o <<AnalystCall(prompt, file_model, o)>>,
              errors |-> <<"E_ANALYST_ACCESS">>]
        ELSE IF o.api = "malformed"
        THEN [turns |-> <<AnalystErrorTurn("E_RESPONSE_FORMAT")>>,
              calls |-> stage_calls \o <<AnalystCall(prompt, file_model, o)>>,
              errors |-> <<"E_ANALYST_ACCESS">>]
        ELSE [turns |-> <<answer>>
                        \o (IF o.draws THEN <<>>
                            ELSE <<AnalystErrorTurn("E_DRAW")>>),
              calls |-> stage_calls \o <<AnalystCall(prompt, file_model, o)>>
                        \o TranslateCalls(collected, o)
                        \o SqlCalls(executes, o),
              errors |-> (IF collected # <<>> /\ ~o.translate_ok
                          THEN <<"W_TRANSLATE">> ELSE <<>>)
                         \o (IF executes /\ o.exec = "fail"
                             THEN <<"E_SQL">> ELSE <<>>)
                         \o (IF o.draws THEN <<>> ELSE <<"E_ANALYST_ACCESS">>)]

\* What a chat page keeps of a submitted question.
AnalystChatRecord(prompt, try, o) ==
    /\ analyst_messages' =
          Append(analyst_messages, [role |-> "user", content |-> prompt])
          \o try.turns
    /\ run' = [kind |-> "analyst",
               question |-> prompt,
               outcome |-> o,
               calls |-> try.calls,
               errors |-> try.errors]
    /\ UNCHANGED page

\* A question typed into the chat input of the mvp page (lines 317-515).
AnalystMvpSubmit(max_questions) ==
    /\ page = "analyst_mvp"
    /\ AnalystAsked < max_questions
    /\ \E prompt \in AnalystQuestions, o \in StageFoundOutcomes :
          AnalystChatRecord(prompt, AnalystChatTry(prompt, FALSE, TRUE, o), o)

\* A question typed into the chat input of the short page (lines 123-334).
AnalystShortSubmit(max_questions) ==
    /\ page = "analyst_short"
    /\ AnalystAsked < max_questions
    /\ \E prompt \in AnalystQuestions, o \in AnalystOutcomes :
          AnalystChatRecord(prompt, AnalystChatTry(prompt, TRUE, FALSE, o), o)

\* The clear button of the chat pages (mvp lines 294-296, short 101-103).
AnalystChatClear ==
    /\ page \in {"analyst_mvp", "analyst_short"}
    /\ analyst_messages' = <<>>
    /\ run' = [kind |-> "clear", discarded |-> Len(analyst_messages)]
    /\ UNCHANGED page

\* A script run in which no button was pressed and nothing was submitted:
\* the page is drawn again, after a change of the model, of a filter or of
\* another widget, or for no reason.  Widget values are inputs of the run
\* that uses them; the conversation is only read.
Rerun ==
    /\ run' = [kind |-> "rerun"]
    /\ UNCHANGED <<page, rag_messages, rag_chat_history, submitted, messages,
                   chat_history, analyst_messages>>

\* ------------------------------------------------------- the chat sessions

Init ==
    /\ page \in {"step4", "mvp", "short", "simple", "mvp_simple", "analyst_dev"}
    /\ rag_messages = <<>>
    /\ rag_chat_history = <<>>
    /\ submitted = <<>>
    /\ run = [kind |-> "none"]
    /\ messages = <<>>
    /\ chat_history = <<>>
    /\ analyst_messages = <<>>
    /\ analysis = <<>>
    /\ jobs = <<>>
    /\ runs_started = 0
    /\ sql = [stage |-> "idle"]
    /\ original = <<>>
    /\ raw_response = <<>>
    /\ response = <<>>
    /\ stage = "idle"

Next ==
    \/ Step4Submit(Step4SessionFilters, MaxQuestions) /\ UNCHANGED <<idleVars, messages, chat_history, analyst_messages>>
    \/ Step4Template(Step4SessionFilters, MaxQuestions) /\ UNCHANGED <<idleVars, messages, chat_history, analyst_messages>>
    \/ Step4Clear /\ UNCHANGED <<idleVars, messages, chat_history, analyst_messages>>
    \/ MvpSubmit(MvpSessionFilters, MaxQuestions) /\ UNCHANGED <<idleVars, messages, chat_history, analyst_messages>>
    \/ ShortSubmit /\ UNCHANGED <<idleVars, messages, chat_history, analyst_messages>>
    \/ ChatClear /\ UNCHANGED <<idleVars, messages, chat_history, analyst_messages>>
    \/ SimpleSend(2 * MaxQuestions, PersonaPrompts) /\ UNCHANGED <<idleVars, chat_history, analyst_messages>>
    \/ SimpleFaq(2 * MaxQuestions, PersonaPrompts) /\ UNCHANGED <<idleVars, chat_history, analyst_messages>>
    \/ SimpleClear /\ UNCHANGED <<idleVars, chat_history, analyst_messages>>
    \/ MvpSimpleSubmit /\ UNCHANGED <<idleVars, analyst_messages>>
    \/ MvpSimpleClear /\ UNCHANGED <<idleVars, analyst_messages>>
    \/ AnalystDevSubmit(MaxQuestions) /\ UNCHANGED <<idleVars, rag_messages, rag_chat_history, submitted, messages, chat_history>>
    \/ Rerun /\ UNCHANGED idleVars

Spec == Init /\ [][Next]_vars

\* ------------------------------------------- every filter setting

\* Every setting of the two selectboxes, and of the two multiselects.
Step4AllFilters == ({ALL} \cup Departments) \X ({ALL} \cup DocTypes)
MvpAllFilters == Selections(Departments) \X Selections(DocTypes)

SearchInit ==
    /\ page \in {"step4", "mvp"}
    /\ rag_messages = <<>>
    /\ rag_chat_history = <<>>
    /\ submitted = <<>>
    /\ run = [kind |-> "none"]
    /\ messages = <<>>
    /\ chat_history = <<>>
    /\ analyst_messages = <<>>
    /\ analysis = <<>>
    /\ jobs = <<>>
    /\ runs_started = 0
    /\ sql = [stage |-> "idle"]
    /\ original = <<>>
    /\ raw_response = <<>>
    /\ response = <<>>
    /\ stage = "idle"

\* The first question of a session, and the search demo, under every
\* filter setting.
SearchNext ==
    \/ Step4SearchDemo /\ UNCHANGED <<idleVars, messages, chat_history, analyst_messages>>
    \/ Step4Submit(Step4AllFilters, 1) /\ UNCHANGED <<idleVars, messages, chat_history, analyst_messages>>
    \/ Step4Template(Step4AllFilters, 1) /\ UNCHANGED <<idleVars, messages, chat_history, analyst_messages>>
    \/ Step4Clear /\ UNCHANGED <<idleVars, messages, chat_history, analyst_messages>>
    \/ MvpSubmit(MvpAllFilters, 1) /\ UNCHANGED <<idleVars, messages, chat_history, analyst_messages>>
    \/ ChatClear /\ UNCHANGED <<idleVars, messages, chat_history, analyst_messages>>

SpecSearch == SearchInit /\ [][SearchNext]_vars

\* ------------------------------------------- the Analyst sessions

AnalystInit ==
    /\ page \in {"analyst_dev", "analyst_mvp", "analyst_short"}
    /\ rag_messages = <<>>
    /\ rag_chat_history = <<>>
    /\ submitted = <<>>
    /\ run = [kind |-> "none"]
    /\ messages = <<>>
    /\ chat_history = <<>>
    /\ analyst_messages = <<>>
    /\ analysis = <<>>
    /\ jobs = <<>>
    /\ runs_started = 0
    /\ sql = [stage |-> "idle"]
    /\ original = <<>>
    /\ raw_response = <<>>
    /\ response = <<>>
    /\ stage = "idle"

AnalystNext ==
    \/ AnalystDevSubmit(MaxQuestions) /\ UNCHANGED <<idleVars, rag_messages, rag_chat_history, submitted, messages, chat_history>>
    \/ AnalystDevTemplate(MaxQuestions) /\ UNCHANGED <<idleVars, rag_messages, rag_chat_history, submitted, messages, chat_history>>
    \/ AnalystDevClear /\ UNCHANGED <<idleVars, rag_messages, rag_chat_history, submitted, messages, chat_history>>
    \/ AnalystMvpSubmit(MaxQuestions) /\ UNCHANGED <<idleVars, rag_messages, rag_chat_history, submitted, messages, chat_history>>
    \/ AnalystShortSubmit(MaxQuestions) /\ UNCHANGED <<idleVars, rag_messages, rag_chat_history, submitted, messages, chat_history>>
    \/ AnalystChatClear /\ UNCHANGED <<idleVars, rag_messages, rag_chat_history, submitted, messages, chat_history>>
    \/ Rerun /\ UNCHANGED idleVars

SpecAnalyst == AnalystInit /\ [][AnalystNext]_vars

\* ------------------------------------------- long simple chats

LongInit ==
    /\ page = "simple"
    /\ rag_messages = <<>>
    /\ rag_chat_history = <<>>
    /\ submitted = <<>>
    /\ run = [kind |-> "none"]
    /\ messages = <<>>
    /\ chat_history = <<>>
    /\ analyst_messages = <<>>
    /\ analysis = <<>>
    /\ jobs = <<>>
    /\ runs_started = 0
    /\ sql = [stage |-> "idle"]
    /\ original = <<>>
    /\ raw_response = <<>>
    /\ response = <<>>
    /\ stage = "idle"

\* The simple chatbot under one persona, up to MaxHistory messages.
LongNext ==
    \/ SimpleSend(MaxHistory, {"PERSONA_KIND_ASSISTANT"}) /\ UNCHANGED <<idleVars, chat_history, analyst_messages>>
    \/ SimpleFaq(MaxHistory, {"PERSONA_KIND_ASSISTANT"}) /\ UNCHANGED <<idleVars, chat_history, analyst_messages>>
    \/ SimpleClear /\ UNCHANGED <<idleVars, chat_history, analyst_messages>>

SpecLong == LongInit /\ [][LongNext]_vars

\* ------------------------------------------- review preprocessing

\* CUSTOMER_REVIEWS: the review ids, and the number of chunks the split
\* call gives for each review text.
ReviewIds == {1, 2, 3}
ChunksOf(review_id) == IF review_id = 1 THEN 2 ELSE 1

\* The rows CUSTOMER_ANALYSIS may hold: a review and one of its chunks.
RowKeys == {k \in ReviewIds \X {1, 2} : k[2] <= ChunksOf(k[1])}

\* The browser sessions that have the page open.
Sessions == {"s1", "s2"}

\* The limits of the two buttons: 10, and None (written 0; both make
\* `if limit` false).
ButtonLimits == {10, 0}

\* The reviews without a row in CUSTOMER_ANALYSIS (the LEFT JOIN ... WHERE
\* a.review_id IS NULL of lines 68-73 and 293-298).
Unprocessed == {r \in ReviewIds : \A k \in RowKeys : k[1] = r => analysis[k] = 0}

\* The review sets the query of process_reviews may return under a limit:
\* without ORDER BY any `limit` of the unprocessed reviews.
SelectResults(limit) ==
    IF limit = 0 \/ Cardinality(Unprocessed) <= limit
    THEN {Unprocessed}
    ELSE {S \in SUBSET Unprocessed : Cardinality(S) = limit}

\* The rows of a result set, in the order of the review ids.
RECURSIVE InIdOrder(_)
InIdOrder(S) ==
    IF S = {} THEN <<>>
    ELSE LET first == CHOOSE r \in S : \A q \in S : r <= q
         IN  <<first>> \o InIdOrder(S \ {first})

Idle(ended) == [state |-> "idle", ended |-> ended]

\* A button is pressed (lines 293-322): the script run counts the
\* unprocessed reviews and, when there are some, enters process_reviews.
PressButton(s) ==
    /\ jobs[s].state = "idle"
    /\ runs_started < MaxRuns
    /\ runs_started' = runs_started + 1
    /\ \E limit \in ButtonLimits :
          jobs' = [jobs EXCEPT ![s] =
                      IF Unprocessed # {}
                      THEN [state |-> "selecting", limit |-> limit]
                      ELSE Idle("all_processed")]
    /\ UNCHANGED analysis

\* process_reviews lines 66-77: the query for the unprocessed reviews.
SelectReviews(s) ==
    /\ jobs[s].state = "selecting"
    /\ \E S \in SelectResults(jobs[s].limit), query_ok \in BOOLEAN :
          jobs' = [jobs EXCEPT ![s] =
                      IF ~query_ok THEN Idle("aborted")
                      ELSE IF S = {} THEN Idle("nothing_to_do")
                      ELSE [state |-> "running", limit |-> jobs[s].limit,
                            reviews |-> InIdOrder(S), i |-> 1, chunk |-> 0]]
    /\ UNCHANGED <<analysis, runs_started>>

\* process_reviews lines 90-108: the translation, sentiment and split
\* calls for the review at hand; a failing call ends the run (line 310).
PrepareReview(s) ==
    /\ jobs[s].state = "running"
    /\ jobs[s].chunk = 0
    /\ \E calls_ok \in BOOLEAN :
          jobs' = [jobs EXCEPT ![s] =
                      IF calls_ok THEN [@ EXCEPT !.chunk = 1]
                      ELSE Idle("aborted")]
    /\ UNCHANGED <<analysis, runs_started>>

\* process_reviews lines 111-127: the INSERT of one chunk, with its
\* embedding computed in the statement.  Each is a statement of its own;
\* after the last chunk of the last review the run ends (lines 129,
\* 307-308), and a failing statement ends it at once (line 310).
InsertChunk(s) ==
    /\ jobs[s].state = "running"
    /\ jobs[s].chunk > 0
    /\ LET job == jobs[s]
           review_id == job.reviews[job.i]
       IN  \E insert_ok \in BOOLEAN :
              IF insert_ok
              THEN /\ analysis' = [analysis EXCEPT
                                     ![<<review_id, job.chunk>>] = @ + 1]
                   /\ jobs' = [jobs EXCEPT ![s] =
                         IF job.chunk < ChunksOf(review_id)
                         THEN [job EXCEPT !.chunk = job.chunk + 1]
                         ELSE IF job.i < Len(job.reviews)
                         THEN [job EXCEPT !.i = job.i + 1, !.chunk = 0]
                         ELSE Idle("done")]
              ELSE /\ jobs' = [jobs EXCEPT ![s] = Idle("aborted")]
                   /\ UNCHANGED analysis
    /\ UNCHANGED runs_started

ReviewsInit ==
    /\ page = "reviews"
    /\ rag_messages = <<>>
    /\ rag_chat_history = <<>>
    /\ submitted = <<>>
    /\ run = [kind |-> "none"]
    /\ messages = <<>>
    /\ chat_history = <<>>
    /\ analyst_messages = <<>>
    /\ analysis = [k \in RowKeys |-> 0]
    /\ jobs = [s \in Sessions |-> Idle("none")]
    /\ runs_started = 0
    /\ sql = [stage |-> "idle"]
    /\ original = <<>>
    /\ raw_response = <<>>
    /\ response = <<>>
    /\ stage = "idle"

ReviewsNext ==
    \/ \E s \in Sessions : PressButton(s) /\ UNCHANGED <<ragVars, messages, chat_history, analyst_messages, postVars, sql>>
    \/ \E s \in Sessions : SelectReviews(s) /\ UNCHANGED <<ragVars, messages, chat_history, analyst_messages, postVars, sql>>
    \/ \E s \in Sessions : PrepareReview(s) /\ UNCHANGED <<ragVars, messages, chat_history, analyst_messages, postVars, sql>>
    \/ \E s \in Sessions : InsertChunk(s) /\ UNCHANGED <<ragVars, messages, chat_history, analyst_messages, postVars, sql>>

SpecReviews == ReviewsInit /\ [][ReviewsNext]_vars

\* ------------------------------------------- the query builders alone

\* The characters a string literal of the query language treats specially,
\* and one ordinary letter.
QuoteAlphabet == {SQ, BS, "a"}

QuoteInit ==
    /\ sql \in {[stage |-> "input", question |-> q, context |-> c] :
                   q \in TextsUpTo(QuoteAlphabet, MaxLen) \ {<<>>},
                   c \in TextsUpTo(QuoteAlphabet, MaxLen)}
    /\ page = "none"
    /\ rag_messages = <<>>
    /\ rag_chat_history = <<>>
    /\ submitted = <<>>
    /\ run = [kind |-> "none"]
    /\ messages = <<>>
    /\ chat_history = <<>>
    /\ analyst_messages = <<>>
    /\ analysis = <<>>
    /\ jobs = <<>>
    /\ runs_started = 0
    /\ original = <<>>
    /\ raw_response = <<>>
    /\ response = <<>>
    /\ stage = "idle"

\* generate_rag_response builds its query from a question and a context.
BuildRagQuery ==
    /\ sql.stage = "input"
    /\ \E model \in LLM_MODELS :
          sql' = [stage |-> "built", by |-> "generate_rag_response",
                  question |-> sql.question, context |-> sql.context,
                  query |-> Step4CompleteQuery(sql.question, sql.context, model)]

\* get_ai_response builds its query from the prompt of a first typed message.
BuildChatQuery ==
    /\ sql.stage = "input"
    /\ \E model \in LLM_MODELS, system_prompt \in PersonaPrompts :
          sql' = [stage |-> "built", by |-> "get_ai_response",
                  question |-> sql.question, context |-> sql.context,
                  query |-> GetAiResponseQuery(model,
                               SimpleChatPrompt(system_prompt,
                                   <<[role |-> "user", content |-> sql.question]>>))]

QuoteNext ==
    \/ BuildRagQuery /\ UNCHANGED <<ragVars, messages, postVars, chat_history, analyst_messages, reviewVars>>
    \/ BuildChatQuery /\ UNCHANGED <<ragVars, messages, postVars, chat_history, analyst_messages, reviewVars>>

SpecQuote == QuoteInit /\ [][QuoteNext]_vars

\* ------------------------------------------------------------ properties

\* EMPTY / AWAITING_RESPONSE / READY, read off the turn list.
SessionState ==
    IF rag_messages = <<>> THEN "EMPTY"
    ELSE IF rag_messages[Len(rag_messages)].role = "user" THEN "AWAITING_RESPONSE"
    ELSE "READY"

LastTurn == rag_messages[Len(rag_messages)]

\* The text s holds the atom x.
Contains(s, x) == \E i \in 1..Len(s) : s[i] = x

\* The last script run handled a submitted question.
Answered == run.kind = "answer"

\* The generation calls (not the keyword calls) of the last run.
GenerationCalls == SelectSeq(run.calls, LAMBDA c : c.call = "complete")
SearchCalls == SelectSeq(run.calls, LAMBDA c : c.call = "search")
KeywordCalls == SelectSeq(run.calls, LAMBDA c : c.call = "keywords")

\* The titles of the passages written into a prompt, in the order written:
\* the atoms that follow a title label.
TitleLabels == {"DOC_TITLE: ", "TITLE: "}
RECURSIVE TitlesIn(_)
TitlesIn(prompt) ==
    IF Len(prompt) < 2 THEN <<>>
    ELSE IF prompt[1] \in TitleLabels
         THEN <<prompt[2]>> \o TitlesIn(SubSeq(prompt, 3, Len(prompt)))
         ELSE TitlesIn(Tail(prompt))

\* The provenance list of a turn: its source titles, or the titles of its
\* reference documents.
ProvenanceTitles(turn) ==
    IF "sources" \in DOMAIN turn THEN turn.sources
    ELSE IF "relevant_docs" \in DOMAIN turn
         THEN [i \in 1..Len(turn.relevant_docs) |-> turn.relevant_docs[i].title]
         ELSE <<>>

(* C1: once a question has been appended as a user turn and the script run
   that handles it has returned, the session is READY (never left in
   AWAITING_RESPONSE), and when an external call of that run failed the
   assistant turn appended for the question contains the error detail. *)
C1_TurnCompletes ==
    Answered =>
        /\ SessionState = "READY"
        /\ \A i \in 1..Len(run.errors) : Contains(LastTurn.content, run.errors[i])

(* C2: on the page the claim cites (step4), when the generation call of a
   turn fails, the assistant turn appended for the question contains the
   error detail and has no sources (absent or empty), whatever the retrieval
   returned, and the session is READY. *)
C2_GenerationFailureTurn ==
    (page = "step4" /\ Answered /\ \E i \in 1..Len(run.calls) :
                                      run.calls[i].call = "complete" /\ ~run.calls[i].ok)
    =>  /\ SessionState = "READY"
        /\ LastTurn.role = "assistant"
        /\ \E i \in 1..Len(run.errors) : Contains(LastTurn.content, run.errors[i])
        /\ ProvenanceTitles(LastTurn) = <<>>

(* C3: the turn list holds the questions in submission order and strictly
   alternates user, assistant: turn 2k-1 is the user turn of the k-th
   question submitted and turn 2k is its assistant turn. *)
C3_TurnsAlternateInOrder ==
    /\ Len(rag_messages) = 2 * Len(submitted)
    /\ \A k \in 1..Len(submitted) :
          /\ rag_messages[2 * k - 1] = [role |-> "user", content |-> submitted[k]]
          /\ rag_messages[2 * k].role = "assistant"

(* C4: on the page that turns the question into search keywords, when the
   keyword call fails or returns an empty text, a search request is still
   sent and its query is the question as typed. *)
C4_NormalizationFallback ==
    (page = "short" /\ Answered /\ \E i \in 1..Len(run.calls) :
          /\ run.calls[i].call = "keywords"
          /\ (~run.calls[i].ok \/ run.calls[i].text = <<>>))
    =>  \E j \in 1..Len(run.calls) :
          /\ run.calls[j].call = "search"
          /\ run.calls[j].args.query = run.question

(* C5: when the search call fails (it raises, or its response is malformed)
   the retriever hands its caller a failure, not a value; the value it hands
   over for a failed search is never the empty list a search with zero
   matches gives. *)
C5_RetrievalFailureSurfaced ==
    (Answered /\ run.search_failed) =>
        /\ "raised" \in DOMAIN run.retrieved
        /\ run.retrieved.raised

(* C6: the number of passages written into the context of a generation
   request never exceeds the result limit of the turn, whatever number of
   records the search response holds. *)
C6_ContextWithinLimit ==
    Answered =>
        \A i \in 1..Len(run.calls) :
            run.calls[i].call = "complete" =>
                Len(TitlesIn(run.calls[i].prompt)) <= run.limit

(* C7: after a turn whose generation call succeeded, the provenance list of
   the assistant turn has one entry per passage written into the context of
   the generation request, in the same order: entry i is passage i. *)
C7_ProvenanceMatchesContext ==
    (Answered /\ Len(GenerationCalls) = 1 /\ GenerationCalls[1].ok)
    =>  /\ LastTurn.role = "assistant"
        /\ ProvenanceTitles(LastTurn) = TitlesIn(GenerationCalls[1].prompt)

\* A successful turn over two retrieved passages.
C7_Witness ==
    /\ Answered /\ Len(GenerationCalls) = 1 /\ GenerationCalls[1].ok
    /\ SessionState = "READY"
    /\ ProvenanceTitles(LastTurn) = <<"T2", "T1">>
    /\ TitlesIn(GenerationCalls[1].prompt) = <<"T2", "T1">>

(* C8: round trip of the post-processing: for a non-empty text, when the raw
   response is the text with each newline written as backslash-n, each
   double quote as backslash-quote and each backslash doubled, the cleaned
   answer is the text. *)
C8_RoundTrip ==
    (stage = "returned" /\ original # <<>> /\ raw_response = EscapeText(original))
    => response = original

\* str.replace written as a scan by position.
RECURSIVE ScanReplace(_, _, _, _)
ScanReplace(s, i, old, new) ==
    IF i > Len(s) THEN <<>>
    ELSE IF /\ i + Len(old) - 1 <= Len(s)
            /\ \A k \in 1..Len(old) : s[i + k - 1] = old[k]
         THEN new \o ScanReplace(s, i + Len(old), old, new)
         ELSE <<s[i]>> \o ScanReplace(s, i + 1, old, new)

\* The four steps the post-processing is described by.
StripQuotePair(r) ==
    IF Len(r) >= 1 /\ r[1] = DQ /\ r[Len(r)] = DQ
    THEN [i \in 1..(Len(r) - 2) |-> r[i + 1]]
    ELSE r
UnescapeNewlineTab(r) ==
    ScanReplace(ScanReplace(r, 1, <<BS, "n">>, <<NL>>), 1, <<BS, "t">>, <<TAB>>)
UnescapeQuotes(r) ==
    ScanReplace(ScanReplace(r, 1, <<BS, DQ>>, <<DQ>>), 1, <<BS, SQ>>, <<SQ>>)
UnescapeBackslash(r) == ScanReplace(r, 1, <<BS, BS>>, <<BS>>)

(* C9: every non-empty raw response is post-processed by these steps in this
   order: (1) one leading and one trailing double quote are removed when the
   response both starts and ends with one; (2) backslash-n and backslash-t
   become newline and tab; (3) backslash-escaped quotes become the quote;
   (4) doubled backslashes become one backslash, last. *)
C9_StepsInOrder ==
    (stage = "returned" /\ raw_response # <<>>)
    => response =
         UnescapeBackslash(UnescapeQuotes(UnescapeNewlineTab(StripQuotePair(raw_response))))

\* A response on which the order of the steps shows: backslash, backslash, n
\* gives backslash, newline (undoing the doubled backslash first would give
\* backslash, n).
C9_Witness ==
    /\ stage = "returned"
    /\ raw_response = <<BS, BS, "n">>
    /\ response = <<BS, NL>>

(* C10: when exactly one attribute is constrained, to exactly one value, the
   filter of the search request is the single node {"@eq": {attribute:
   value}}, with no @and or @or around it. *)
C10_SingleEqFilter ==
    run.kind \in {"answer", "search"} =>
    \A i \in 1..Len(run.calls) :
        run.calls[i].call = "search" =>
            LET sel == run.selected
                args == run.calls[i].args
            IN  /\ (Len(sel.department) = 1 /\ Len(sel.document_type) = 0)
                      => /\ "filter" \in DOMAIN args
                         /\ args.filter = ("@eq" :> ("department" :> sel.department[1]))
                /\ (Len(sel.department) = 0 /\ Len(sel.document_type) = 1)
                      => /\ "filter" \in DOMAIN args
                         /\ args.filter = ("@eq" :> ("document_type" :> sel.document_type[1]))

\* A search request sent with only the document type constrained.
C10_Witness ==
    /\ run.kind \in {"answer", "search"}
    /\ Len(SearchCalls) = 1
    /\ run.selected = [department |-> <<>>, document_type |-> <<"Manual">>]
    /\ SearchCalls[1].args.filter = ("@eq" :> ("document_type" :> "Manual"))

(* C11: a search request built while no attribute is constrained has no
   "filter" key at all (not an empty, null or always-true filter). *)
C11_NoFilterKey ==
    run.kind \in {"answer", "search"} =>
    \A i \in 1..Len(run.calls) :
        (/\ run.calls[i].call = "search"
         /\ run.selected.department = <<>>
         /\ run.selected.document_type = <<>>)
        => /\ "filter" \notin DOMAIN run.calls[i].args
           /\ DOMAIN run.calls[i].args = {"query", "columns", "limit"}

\* Search requests sent with nothing selected, from the selectbox page and
\* from the multiselect page.
C11_Witness ==
    /\ run.kind \in {"answer", "search"}
    /\ Len(SearchCalls) = 1
    /\ run.selected = [department |-> <<>>, document_type |-> <<>>]
    /\ "filter" \notin DOMAIN SearchCalls[1].args
    /\ page = "mvp"

\* The expression the claim gives for one constrained attribute: the @eq node
\* of a single value, one @or over one @eq node per value for several.
AttributeNode(attribute, values) ==
    IF Len(values) = 1
    THEN "@eq" :> (attribute :> values[1])
    ELSE "@or" :> [i \in 1..Len(values) |-> "@eq" :> (attribute :> values[i])]

(* C12: the filter of a search request has this shape: an attribute with
   several selected values gives one @or over one @eq node per value; with
   both attributes constrained the filter is one @and of the two
   per-attribute expressions, department first; @and is never used for a
   single constrained attribute and @or never for a single value. *)
C12_FilterShape ==
    run.kind \in {"answer", "search"} =>
    \A i \in 1..Len(run.calls) :
        (run.calls[i].call = "search" /\ run.selected # [department |-> <<>>,
                                                         document_type |-> <<>>])
        => LET sel == run.selected
               args == run.calls[i].args
               department == AttributeNode("department", sel.department)
               document_type == AttributeNode("document_type", sel.document_type)
           IN  /\ "filter" \in DOMAIN args
               /\ args.filter =
                     IF sel.department # <<>> /\ sel.document_type # <<>>
                     THEN "@and" :> <<department, document_type>>
                     ELSE IF sel.department # <<>> THEN department
                     ELSE document_type

\* Two departments and two document types selected: an @and of two @or nodes,
\* the department one first.
C12_Witness ==
    /\ run.kind = "answer"
    /\ Len(SearchCalls) = 1
    /\ run.selected = [department |-> <<"Sales", "CS">>,
                       document_type |-> <<"FAQ", "Manual">>]
    /\ DOMAIN SearchCalls[1].args.filter = {"@and"}
    /\ DOMAIN SearchCalls[1].args.filter["@and"][1] = {"@or"}
    /\ SearchCalls[1].args.filter["@and"][1]["@or"][1] = ("@eq" :> ("department" :> "Sales"))
    /\ DOMAIN SearchCalls[1].args.filter["@and"][2] = {"@or"}

\* The documents a filter is evaluated on: every pair of attribute values.
AllDocuments == [department : Departments, document_type : DocTypes]

\* The usual meaning of a filter expression: @eq compares attributes, @and
\* holds when every element does, @or when some element does.
RECURSIVE Satisfies(_, _)
Satisfies(document, filter) ==
    IF "@eq" \in DOMAIN filter
    THEN \A a \in DOMAIN filter["@eq"] : document[a] = filter["@eq"][a]
    ELSE IF "@and" \in DOMAIN filter
    THEN \A i \in 1..Len(filter["@and"]) : Satisfies(document, filter["@and"][i])
    ELSE \E i \in 1..Len(filter["@or"]) : Satisfies(document, filter["@or"][i])

\* A request without a filter admits every document.
Admits(args, document) ==
    "filter" \in DOMAIN args => Satisfies(document, args.filter)

Selected(values, v) == \E i \in 1..Len(values) : values[i] = v

(* C13: for every selection and every document, the document satisfies the
   filter of the search request exactly when (no department is selected or
   the document's department is among the selected ones) and (no document
   type is selected or the document's type is among the selected ones). *)
C13_FilterMeaning ==
    run.kind \in {"answer", "search"} =>
    \A i \in 1..Len(run.calls) :
        run.calls[i].call = "search" =>
            \A document \in AllDocuments :
                Admits(run.calls[i].args, document)
                <=> /\ (run.selected.department = <<>>
                        \/ Selected(run.selected.department, document.department))
                    /\ (run.selected.document_type = <<>>
                        \/ Selected(run.selected.document_type, document.document_type))

\* Both departments and one document type selected: the filter admits the
\* FAQ of either department and rejects every manual.
C13_Witness ==
    /\ run.kind = "answer"
    /\ Len(SearchCalls) = 1
    /\ run.selected = [department |-> <<"CS", "Sales">>, document_type |-> <<"FAQ">>]
    /\ "filter" \in DOMAIN SearchCalls[1].args
    /\ \A document \in AllDocuments :
          Satisfies(document, SearchCalls[1].args.filter) <=> document.document_type = "FAQ"

\* The contents of the passages written into a prompt, in the order written:
\* the atoms that follow a content label.
ContentLabels == {"DOC_CONTENT: ", "CONTENT: "}
RECURSIVE ContentsIn(_)
ContentsIn(prompt) ==
    IF Len(prompt) < 2 THEN <<>>
    ELSE IF prompt[1] \in ContentLabels
         THEN <<prompt[2]>> \o ContentsIn(SubSeq(prompt, 3, Len(prompt)))
         ELSE ContentsIn(Tail(prompt))

\* The last run's retriever handed over a passage sequence.
Retrieved == Answered /\ "raised" \in DOMAIN run.retrieved /\ ~run.retrieved.raised

(* C14: the context written into a generation request holds the passages the
   retriever handed over in exactly that order: passage i of the context is
   passage i received, none dropped, duplicated or moved. *)
C14_ContextKeepsOrder ==
    Retrieved =>
        \A i \in 1..Len(run.calls) :
            run.calls[i].call = "complete" =>
                LET passages == run.retrieved.value
                IN  /\ TitlesIn(run.calls[i].prompt) =
                          [k \in 1..Len(passages) |-> passages[k].title]
                    /\ ContentsIn(run.calls[i].prompt) =
                          [k \in 1..Len(passages) |-> passages[k].content]

\* Two passages received with the second document first, and written so.
C14_Witness ==
    /\ Retrieved
    /\ Len(GenerationCalls) = 1
    /\ Len(run.retrieved.value) = 2
    /\ run.retrieved.value[1].title = "T2"
    /\ TitlesIn(GenerationCalls[1].prompt) = <<"T2", "T1">>
    /\ ContentsIn(GenerationCalls[1].prompt) = <<"C2", "C1">>

\* The context written into a generation prompt: the atoms between the label
\* that announces the context and the label that announces the question.
ContextLabels == {"DOCUMENTS_LABEL", "CONTEXT_LABEL"}
ContextOf(prompt) ==
    LET from == CHOOSE i \in 1..Len(prompt) : prompt[i] \in ContextLabels
        to == CHOOSE i \in 1..Len(prompt) : prompt[i] = "QUESTION_LABEL"
    IN  SubSeq(prompt, from + 1, to - 1)

\* The text part occurs in text as a contiguous piece.
Occurs(part, text) ==
    \E i \in 0..(Len(text) - Len(part)) : SubSeq(text, i + 1, i + Len(part)) = part

\* The context a page assembles from the records of a search response.
PageContext(p, records) ==
    IF p = "step4"
    THEN Step4Context(Step4ContextDocuments(Step4Results(records)))
    ELSE ChatContext(RelevantDocs(records))

\* The well-formed search responses that hold at least one record.
PassageResponses ==
    {r \in SearchResponses : r # <<>> /\ \A i \in 1..Len(r) : HasColumns(r[i])}

\* A sentinel for "nothing retrieved": a non-empty text that stands for the
\* empty passage sequence only, so it occurs in no context assembled from
\* passages.
IsSentinel(text, p) ==
    /\ text # <<>>
    /\ \A r \in PassageResponses : ~Occurs(text, PageContext(p, r))

(* C15: the context assembled from an empty passage sequence is always the
   same fixed, non-empty sentinel text meaning that no relevant documents
   were found, whatever turns, clears or retrieval results came before. *)
C15_EmptyContextSentinel ==
    (Retrieved /\ run.retrieved.value = <<>>) =>
        \A i \in 1..Len(run.calls) :
            run.calls[i].call = "complete" =>
                LET context == ContextOf(run.calls[i].prompt)
                IN  /\ context = PageContext(page, <<>>)
                    /\ IsSentinel(context, page)

(* C16: when the search succeeds with zero passages the turn is not an
   error: one generation call is issued, its context is the no-context
   sentinel, and when it answers, the assistant turn is appended with the
   answer and an empty provenance list. *)
C16_ZeroPassagesTurn ==
    (Retrieved /\ ~run.search_failed /\ Len(SearchCalls) = 1 /\ SearchCalls[1].ok
        /\ run.retrieved.value = <<>>)
    =>  /\ Len(GenerationCalls) = 1
        /\ IsSentinel(ContextOf(GenerationCalls[1].prompt), page)
        /\ GenerationCalls[1].ok =>
              /\ run.errors = <<>>
              /\ SessionState = "READY"
              /\ LastTurn.role = "assistant"
              /\ ProvenanceTitles(LastTurn) = <<>>

\* C16 without the sentinel: what the turn does besides assembling the context.
ZeroPassagesTurnAnswered ==
    (Retrieved /\ ~run.search_failed /\ Len(SearchCalls) = 1 /\ SearchCalls[1].ok
        /\ run.retrieved.value = <<>>)
    =>  /\ Len(GenerationCalls) = 1
        /\ ContextOf(GenerationCalls[1].prompt) = PageContext(page, <<>>)
        /\ GenerationCalls[1].ok =>
              /\ run.errors = <<>>
              /\ SessionState = "READY"
              /\ LastTurn.role = "assistant"
              /\ ProvenanceTitles(LastTurn) = <<>>

\* The stage of the pipeline a call belongs to.
CallStage(c) ==
    CASE c.call = "keywords" -> 1
      [] c.call = "search" -> 2
      [] c.call = "complete" -> 3

\* The calls of the last run go strictly forward through the stages: none is
\* repeated, none is issued after a later stage's call.
CallsForward ==
    \A i, j \in 1..Len(run.calls) :
        i < j => CallStage(run.calls[i]) < CallStage(run.calls[j])

(* C17, as first stated: for every submitted question exactly one search
   call is issued and exactly one answer-generation call, the latter after
   the search call has returned, and no call is retried or repeated. *)
C17_ExactlyOneOfEach ==
    Answered =>
        /\ Len(SearchCalls) = 1
        /\ Len(GenerationCalls) = 1
        /\ CallsForward

(* C17, amended: for every submitted question the calls go strictly forward
   and none is retried or repeated, whether it succeeds or fails: at most
   one search call and at most one answer-generation call are issued, the
   generation call after the search call.  On page mvp exactly one search
   call is issued, and the generation call is issued exactly when the search
   returned a well-formed response: after a failed search there is none. *)
C17_CallsForwardOnce ==
    Answered =>
        /\ Len(SearchCalls) <= 1
        /\ Len(GenerationCalls) <= 1
        /\ CallsForward
        /\ page = "mvp" =>
              /\ Len(SearchCalls) = 1
              /\ Len(GenerationCalls) = 1 <=> ~run.search_failed

\* A question on page mvp whose search raised: one search call, no
\* generation call.
C17_Witness ==
    /\ Answered
    /\ page = "mvp"
    /\ Len(run.calls) = 1
    /\ run.calls[1].call = "search"
    /\ ~run.calls[1].ok
    /\ GenerationCalls = <<>>

\* The conversation of the session: the turn list of its page.
History == IF page \in {"simple", "mvp_simple"} THEN messages ELSE rag_messages

IsPrefix(a, b) == Len(a) <= Len(b) /\ SubSeq(b, 1, Len(a)) = a

\* The last run handled a question, with or without retrieval.
Asked == run.kind \in {"answer", "chat"}

(* C18: a clear, in whatever state it is pressed, leaves the history empty
   (the turn list and the running history text), and a question handled on
   the history a clear leaves behind, at once or after reruns, starts a
   history that holds the turns of that question only. *)
C18_ClearEmptiesHistory ==
    [][/\ run'.kind = "clear" => (History' = <<>> /\ rag_chat_history' = <<>>)
       /\ (History = <<>> /\ rag_chat_history = <<>> /\ Asked') =>
             /\ Len(History') \in {1, 2}
             /\ History'[1] = [role |-> "user", content |-> run'.question]
             /\ Len(History') = 2 => History'[2].role = "assistant"
             /\ \A i \in 1..Len(rag_chat_history') :
                   rag_chat_history'[i] = "User: " => i = 1]_vars

\* A clear pressed on a conversation of two questions.
C18_Witness ==
    /\ run.kind = "clear"
    /\ run.discarded = 4
    /\ History = <<>>
    /\ rag_chat_history = <<>>

(* C19: the turn list is append-only: after every script run other than a
   clear (a submitted question, a template or FAQ button, a rerun after a
   model or filter change) the history before the run is a prefix of the
   history after it, for the turn list and for the history text alike; the
   history gets shorter only through a clear. *)
C19_AppendOnly ==
    [][run'.kind # "clear" =>
          /\ IsPrefix(History, History')
          /\ IsPrefix(rag_chat_history, rag_chat_history')]_vars

\* A second question answered on top of the turns of the first.
C19_Witness ==
    /\ Asked
    /\ Len(History) = 4
    /\ History[3] = [role |-> "user", content |-> run.question]

\* How the query language reads a string literal: from position i, just
\* after the opening quote, to the quote that closes it.  Two quotes in a row
\* stand for one quote, and a backslash takes the character after it with it
\* (Snowflake reads backslash escapes in single-quoted constants).  The result
\* is the position of the closing quote, 0 when the literal is never closed.
RECURSIVE LiteralEnd(_, _)
LiteralEnd(text, i) ==
    IF i > Len(text) THEN 0
    ELSE IF text[i] = BS THEN LiteralEnd(text, i + 2)
    ELSE IF text[i] = SQ
         THEN IF i < Len(text) /\ text[i + 1] = SQ
              THEN LiteralEnd(text, i + 2)
              ELSE i
    ELSE LiteralEnd(text, i + 1)

\* The same reading without backslash escapes: only the doubled quote.
RECURSIVE LiteralEndQuotesOnly(_, _)
LiteralEndQuotesOnly(text, i) ==
    IF i > Len(text) THEN 0
    ELSE IF text[i] = SQ
         THEN IF i < Len(text) /\ text[i + 1] = SQ
              THEN LiteralEndQuotesOnly(text, i + 2)
              ELSE i
    ELSE LiteralEndQuotesOnly(text, i + 1)

\* In both queries the prompt literal opens with the sixth atom, and the
\* template closes it with the last but one.
PromptLiteralEnd(query) == LiteralEnd(query, 7)
PromptLiteralEndQuotesOnly(query) == LiteralEndQuotesOnly(query, 7)

(* C20: every single quote of the question and of the context is escaped
   before the text is put into the generation query, so that the string
   literal holding the prompt is well-formed: it is closed by the quote the
   template writes after the prompt, and by no quote that came with the
   question or the context. *)
C20_PromptLiteralWellFormed ==
    sql.stage = "built" =>
        PromptLiteralEnd(sql.query) = Len(sql.query) - 1

\* What holds of the escaping: the quotes by themselves never end the
\* literal.  Read without backslash escapes, every literal is well-formed;
\* read with them, every literal built from texts without a backslash is.
QuotesAloneNeverEndLiteral ==
    sql.stage = "built" =>
        /\ PromptLiteralEndQuotesOnly(sql.query) = Len(sql.query) - 1
        /\ (~Contains(sql.question, BS) /\ ~Contains(sql.context, BS))
              => PromptLiteralEnd(sql.query) = Len(sql.query) - 1

\* The position of the first atom of the prompt that belongs to the set
\* parts, 0 when there is none.
PartAt(prompt, parts) ==
    IF \E i \in 1..Len(prompt) : prompt[i] \in parts
    THEN CHOOSE i \in 1..Len(prompt) :
            /\ prompt[i] \in parts
            /\ \A j \in 1..(i - 1) : prompt[j] \notin parts
    ELSE 0

\* The parts the claim names, as the prompts word them.
PersonaParts == {"PERSONA_SUPPORT_STAFF", "PERSONA_INTERNAL_ASSISTANT"}
PrioritizeContextParts == {"GUIDE_DOCUMENTS_FIRST"}
HumanChannelParts == {"GUIDE_REFER_TO_DEPARTMENT"}
StepByStepParts == {"GUIDE_NUMBERED_STEPS"}

(* C21: the generation prompt of a RAG turn holds these parts in this order:
   the persona, then the instruction to prioritize the provided context and
   to direct the user to a human channel when information is insufficient,
   then the context block, then the question, then the closing instruction
   to format procedures step by step. *)
C21_PromptPartsInOrder ==
    Answered =>
        \A i \in 1..Len(run.calls) :
            run.calls[i].call = "complete" =>
                LET prompt == run.calls[i].prompt
                    persona == PartAt(prompt, PersonaParts)
                    prioritize == PartAt(prompt, PrioritizeContextParts)
                    channel == PartAt(prompt, HumanChannelParts)
                    context == PartAt(prompt, ContextLabels)
                    question == PartAt(prompt, {"QUESTION_LABEL"})
                    steps == PartAt(prompt, StepByStepParts)
                IN  /\ 0 < persona
                    /\ persona < prioritize /\ persona < channel
                    /\ prioritize < context /\ channel < context
                    /\ context < question
                    /\ question < steps

\* The order in which the two handlers do write the parts.  Page step4:
\* persona, answer from the documents, context, question, then the four
\* guidelines (documents first, refer to a department, kind words, numbered
\* steps).  Pages mvp and short: persona, answer in Japanese from the
\* context, say so if unknown, context, question, and nothing after it.
PromptPartsAsBuilt ==
    Answered =>
        \A i \in 1..Len(run.calls) :
            run.calls[i].call = "complete" =>
                LET prompt == run.calls[i].prompt
                    At(a) == PartAt(prompt, {a})
                IN  IF page = "step4"
                    THEN /\ 0 < At("PERSONA_SUPPORT_STAFF")
                         /\ At("PERSONA_SUPPORT_STAFF") < At("ANSWER_FROM_OFFICIAL_DOCUMENTS")
                         /\ At("ANSWER_FROM_OFFICIAL_DOCUMENTS") < At("DOCUMENTS_LABEL")
                         /\ At("DOCUMENTS_LABEL") < At("QUESTION_LABEL")
                         /\ At("QUESTION_LABEL") < At("GUIDE_DOCUMENTS_FIRST")
                         /\ At("GUIDE_DOCUMENTS_FIRST") < At("GUIDE_REFER_TO_DEPARTMENT")
                         /\ At("GUIDE_REFER_TO_DEPARTMENT") < At("GUIDE_KIND_WORDS")
                         /\ At("GUIDE_KIND_WORDS") < At("GUIDE_NUMBERED_STEPS")
                    ELSE /\ At("PERSONA_INTERNAL_ASSISTANT") = 1
                         /\ At("ANSWER_IN_JAPANESE_FROM_CONTEXT") = 2
                         /\ At("SAY_SO_IF_UNKNOWN") = 3
                         /\ At("CONTEXT_LABEL") = 4
                         /\ 4 < At("QUESTION_LABEL")
                         /\ SubSeq(prompt, At("QUESTION_LABEL") + 1, Len(prompt)) = run.question
                         /\ PartAt(prompt, HumanChannelParts \cup StepByStepParts) = 0

\* The text a string literal stands for, each doubled quote read as one
\* quote; the literal of the prompt is what stands between the sixth atom of
\* the query and its last but one.
DecodeLiteral(query) ==
    Replace(SubSeq(query, 7, Len(query) - 2), <<SQ, SQ>>, <<SQ>>)

\* The prompt generate_rag_response means to send: its template around the
\* question and the context as they are.
IntendedRagPrompt(question, context) ==
    <<"PERSONA_SUPPORT_STAFF", "ANSWER_FROM_OFFICIAL_DOCUMENTS", "DOCUMENTS_LABEL">>
    \o context \o <<"QUESTION_LABEL">> \o question
    \o <<"GUIDE_DOCUMENTS_FIRST", "GUIDE_REFER_TO_DEPARTMENT",
         "GUIDE_KIND_WORDS", "GUIDE_NUMBERED_STEPS">>

\* The prompt a query stands for is the intended one.
DecodesToIntendedPrompt ==
    IF sql.by = "generate_rag_response"
    THEN DecodeLiteral(sql.query) = IntendedRagPrompt(sql.question, sql.context)
    ELSE \E system_prompt \in PersonaPrompts :
            DecodeLiteral(sql.query) =
                SimpleChatPrompt(system_prompt,
                                 <<[role |-> "user", content |-> sql.question]>>)

(* C23: quote escaping is applied exactly once on the way to the generation
   call: for every question and context, decoding the string literal of the
   query (each doubled quote read as one quote) gives the intended prompt,
   with the question and the context verbatim and every quote of theirs
   exactly once. *)
C23_EscapedExactlyOnce ==
    sql.stage = "built" => DecodesToIntendedPrompt

\* What holds: get_ai_response escapes once, and generate_rag_response is
\* exact on texts without a quote.
EscapedOnceWhereSo ==
    (/\ sql.stage = "built"
     /\ \/ sql.by = "get_ai_response"
        \/ ~Contains(sql.question, SQ) /\ ~Contains(sql.context, SQ))
    => DecodesToIntendedPrompt

\* The history text that goes with a message list: one "User: " line per
\* user message and one "AI: " line per assistant message, in order.
RECURSIVE HistoryText(_)
HistoryText(msgs) ==
    IF msgs = <<>> THEN <<>>
    ELSE (IF msgs[1].role = "user" THEN <<"User: ">> ELSE <<"AI: ">>)
         \o msgs[1].content \o <<NL>> \o HistoryText(Tail(msgs))

(* C26: on the pages that keep a message list and a running history text,
   the two stay in step after any sequence of submits, failed turns and
   clears: the text is the concatenation, in order, of one "User: " line per
   user message and one "AI: " line per assistant message of the list, and
   it is empty when the list is empty. *)
C26_TextInStepWithList ==
    /\ page \in {"mvp", "short"} => rag_chat_history = HistoryText(rag_messages)
    /\ page = "mvp_simple" => chat_history = HistoryText(messages)

\* A failed turn followed by an answered one: two user lines, then an AI line.
C26_Witness ==
    /\ page = "mvp_simple"
    /\ Len(messages) = 3
    /\ messages[2].role = "user"
    /\ messages[3].role = "assistant"
    /\ chat_history = HistoryText(messages)
    /\ chat_history # <<>>

\* The part of a simple-chat prompt between its history label and its
\* closing instruction.
HistoryPart(prompt) == SubSeq(prompt, 3, Len(prompt) - 1)

\* The entries a history part reads as: a role label, a content, a line end.
RECURSIVE PromptEntries(_)
PromptEntries(text) ==
    IF text = <<>> THEN <<>>
    ELSE LET i == CHOOSE j \in 2..Len(text) :
                    text[j] = NL /\ \A k \in 2..(j - 1) : text[k] # NL
         IN  <<[role |-> IF text[1] = "USER: " THEN "user" ELSE "assistant",
                content |-> SubSeq(text, 2, i - 1)]>>
             \o PromptEntries(SubSeq(text, i + 1, Len(text)))

\* A script run that answered a typed question of the simple chatbot.
TypedTurn ==
    /\ page = "simple"
    /\ run.kind = "chat"
    /\ run.full_prompt[2] = "HISTORY_LABEL"

(* C25: on the simple chatbot the history embedded in the prompt of a typed
   question is exactly the last min(10, n) messages of the n-message history
   that ends with the question just submitted, in their order and with their
   roles; its final entry is that user message. *)
C25_LastTenInPrompt ==
    TypedTurn =>
        LET n == Len(messages) - 1
            k == IF n > 10 THEN 10 ELSE n
            entries == PromptEntries(HistoryPart(run.full_prompt))
        IN  /\ entries = SubSeq(messages, n - k + 1, n)
            /\ entries[Len(entries)] = [role |-> "user", content |-> run.question]

\* A typed question asked when the list already held ten messages.
C25_Witness ==
    /\ TypedTurn
    /\ Len(messages) = 12
    /\ Len(PromptEntries(HistoryPart(run.full_prompt))) = 10
    /\ PromptEntries(HistoryPart(run.full_prompt))[1] = messages[2]

\* The histories the pages keep.
Histories ==
    <<rag_messages, rag_chat_history, submitted, messages, chat_history,
      analyst_messages>>

(* C24: pressing the submit button with an empty input is a no-op: a script
   run either records a question that is not empty, or appends no turn,
   leaves every history as it was and makes no search, generation or
   Analyst call. *)
C24_EmptySubmitNoOp ==
    [][/\ run'.kind = "noop" =>
              /\ UNCHANGED Histories
              /\ "calls" \notin DOMAIN run'
       /\ run'.kind \in {"answer", "chat", "analyst"} => run'.question # <<>>
       /\ Len(analyst_messages') > Len(analyst_messages) =>
              \A i \in (Len(analyst_messages) + 1)..Len(analyst_messages') :
                  analyst_messages'[i].role = "user" =>
                      analyst_messages'[i].content # <<>>]_vars

\* An empty submit on the Analyst page after a question was answered.
C24_Witness ==
    /\ page = "analyst_dev"
    /\ run.kind = "noop"
    /\ Len(analyst_messages) = 2

\* The script run answered an Analyst question.
AnalystTurn == run.kind = "analyst"

\* The calls of the script run of one kind.
CallsOf(kind) == SelectSeq(run.calls, LAMBDA c : c.call = kind)

\* The translation call of the script run failed.
TranslationFailed ==
    /\ AnalystTurn
    /\ \E i \in 1..Len(run.calls) :
          run.calls[i].call = "translate" /\ ~run.calls[i].ok

\* The turn that follows the last question of the Analyst history.
LastQuestionIndex ==
    CHOOSE i \in 1..Len(analyst_messages) :
        /\ analyst_messages[i].role = "user"
        /\ \A j \in (i + 1)..Len(analyst_messages) :
              analyst_messages[j].role # "user"
AnswerTurn == analyst_messages[LastQuestionIndex + 1]

\* The response text an answer turn keeps.
KeptText(turn) ==
    IF page = "analyst_dev" THEN turn.result.response_text ELSE turn.content

\* A statement was executed and failed.
SqlFailed == \E i \in 1..Len(run.calls) :
                 run.calls[i].call = "sql" /\ ~run.calls[i].ok

(* C22: in the Analyst flows the translation is attempted at most once per
   turn, and when the translation call fails the untranslated text is kept,
   the turn goes on to execute the statement and completes as a turn does
   whose translation succeeded: an answer turn with the result of the
   statement, not the turn of an aborted question. *)
C22_TranslationFailureKeepsText ==
    AnalystTurn =>
        /\ Len(CallsOf("translate")) <= 1
        /\ TranslationFailed =>
              /\ Strip(KeptText(AnswerTurn)) = CallsOf("translate")[1].text
              /\ HasStatement(run.outcome.statement) =>
                    /\ Len(CallsOf("sql")) = 1
                    /\ run.calls[Len(run.calls)].call = "sql"
                    /\ run.calls[Len(run.calls)].statement = run.outcome.statement
              /\ IF page = "analyst_dev"
                 THEN AnswerTurn.result.success = ~SqlFailed
                 ELSE /\ "sql" \in DOMAIN AnswerTurn
                      /\ AnswerTurn.result = "None" <=>
                            (SqlFailed \/ Len(CallsOf("sql")) = 0)

\* A failed translation followed by a statement that gave rows.
C22_Witness ==
    /\ page = "analyst_mvp"
    /\ TranslationFailed
    /\ Len(CallsOf("sql")) = 1
    /\ AnswerTurn.result = "ROWS"
    /\ AnswerTurn.content = <<"interpretation">>

(* C27: in the Analyst chat every submitted question gives exactly one user
   turn followed by exactly one answer turn, on every path: success, an API
   status of 400 or more, a malformed response, a failing statement, a
   failing display of the result, a missing semantic model, an unavailable
   internal API. *)
C27_OneAnswerPerQuestion ==
    [][run'.kind = "analyst" =>
          LET n == Len(analyst_messages)
          IN  /\ Len(analyst_messages') = n + 2
              /\ SubSeq(analyst_messages', 1, n) = analyst_messages
              /\ analyst_messages'[n + 1] =
                    [role |-> "user", content |-> run'.question]
              /\ analyst_messages'[n + 2].role \in {"assistant", "analyst"}]_vars

\* The display of an answer failed after the answer turn was appended.
DrawFailedAfterAppend ==
    /\ page \in {"analyst_mvp", "analyst_short"}
    /\ run.outcome.stage = "found"
    /\ run.outcome.api \in {"ok", "unavailable"}
    /\ ~run.outcome.draws

\* What the pages do: one user turn and one answer turn, and one more
\* assistant turn exactly when the display failed after the append.
OneAnswerUnlessDrawFails ==
    [][run'.kind = "analyst" =>
          LET n == Len(analyst_messages)
          IN  /\ SubSeq(analyst_messages', 1, n) = analyst_messages
              /\ analyst_messages'[n + 1] =
                    [role |-> "user", content |-> run'.question]
              /\ analyst_messages'[n + 2].role \in {"assistant", "analyst"}
              /\ IF DrawFailedAfterAppend'
                 THEN /\ Len(analyst_messages') = n + 3
                      /\ analyst_messages'[n + 3] = AnalystErrorTurn("E_DRAW")
                 ELSE Len(analyst_messages') = n + 2]_vars

\* The Analyst answered without a statement to execute.
NoSqlResponse ==
    /\ AnalystTurn
    /\ run.outcome.stage = "found"
    /\ run.outcome.api = "ok"
    /\ ~HasStatement(run.outcome.statement)

\* The handling the claim C28 describes.
NoSqlHandled ==
    /\ Len(CallsOf("sql")) = 0
    /\ ~Contains(run.errors, "E_SQL")
    /\ Strip(KeptText(AnswerTurn)) =
          Strip(AfterTranslate(CollectedText(run.outcome), run.outcome))
    /\ IF page = "analyst_dev"
       THEN /\ AnswerTurn.result.success
            /\ AnswerTurn.result.data # "ROWS"
       ELSE /\ "sql" \in DOMAIN AnswerTurn
            /\ AnswerTurn.result # "ROWS"

(* C28: when the Analyst response holds no SQL statement, or one of
   whitespace only, every implementation handles it the same way: no SQL is
   sent for execution, no error is reported, and the answer turn is recorded
   as a normal turn with the response text and no result rows. *)
C28_NoSqlHandledAlike == NoSqlResponse => NoSqlHandled

\* The pages that check the statement before executing it handle it so.
NoSqlHandledWhereChecked ==
    NoSqlResponse /\ page \in {"analyst_dev", "analyst_mvp"} => NoSqlHandled

\* No run of process_reviews is under way.
Quiet == \A s \in Sessions : jobs[s].state = "idle"

\* The review has a row in CUSTOMER_ANALYSIS.
HasRow(r) == \E k \in RowKeys : k[1] = r /\ analysis[k] > 0

(* C29: review preprocessing is all-or-nothing per review: after any
   sequence of process_reviews runs, aborted ones included, every review
   with at least one row in CUSTOMER_ANALYSIS has a row for each of its
   chunks. *)
C29_AllOrNothing ==
    Quiet => \A r \in ReviewIds :
                HasRow(r) => \A k \in RowKeys : k[1] = r => analysis[k] > 0

\* What the runs do keep: the rows of a review are those of its first
\* chunks, in the order of the inserts.
RowsAreLeadingChunks ==
    \A k \in RowKeys : analysis[k] > 0 /\ k[2] > 1 => analysis[<<k[1], k[2] - 1>>] > 0

(* C30: review preprocessing never reprocesses: over any sequence of runs,
   also of two sessions pressing the button at overlapping times, each
   chunk of a review is inserted at most once, and a run handles at most
   `limit` reviews. *)
C30_NeverReprocesses ==
    /\ \A k \in RowKeys : analysis[k] <= 1
    /\ \A s \in Sessions :
          jobs[s].state = "running" /\ jobs[s].limit # 0 =>
              Len(jobs[s].reviews) <= jobs[s].limit

\* What the runs do keep: a chunk is inserted at most once by each session,
\* and twice only by two runs that overlapped.
InsertedOncePerSession ==
    \A k \in RowKeys : analysis[k] <= Cardinality(Sessions)

====
